---- MODULE Spec2Model ----
(***************************************************************************)
(* OR Voice Assistant (backend/app.py): the command interpretation engine  *)
(* (parse_command), the rule-based responder                               *)
(* (generate_rule_based_response), the /ask response assembler and the     *)
(* transcription-session endpoints, as a state machine.                    *)
(*                                                                         *)
(* Python values are represented as follows.                               *)
(*   str            a TLA+ string; `in`, lower(), strip() and f-strings    *)
(*                  are computed character by character                    *)
(*   Optional[x]    a sequence of length <= 1: None is <<>>, x is <<x>>    *)
(*   list           a sequence                                             *)
(*   dict           a record (a function on its keys)                      *)
(*   float          a pair <<numerator, denominator>>                      *)
(*   a call that    [raised |-> TRUE, value |-> <exception>]; a call that  *)
(*   may raise      returns v is [raised |-> FALSE, value |-> v]           *)
(***************************************************************************)
EXTENDS Integers, Sequences, FiniteSets, TLC

VARIABLES
    transcript,       \* Optional[str]: the utterance of the request under study
    procedure_type,   \* str: the procedure_type of the request under study
    mock_data,        \* global mock_data (app.py:75), set once by load_mock_data
    gemini_model,     \* global gemini_model (app.py:73): TRUE when initialised
    openai_client,    \* global openai_client (app.py:74): TRUE when initialised
    whisper_model,    \* global whisper_model (app.py:72): "none", "openai_api"
                      \* or "local" (a loaded local model)
    WHISPER_AVAILABLE,  \* module flag (app.py:28-32): the whisper package imports
    parsed,           \* Optional: what the last parse_command call returned
    first_parsed,     \* Optional: what the first parse_command call returned
    rule_answer,      \* Optional: outcome of the last direct responder call
    llm_answer,       \* Optional: outcome of the last direct get_llm_response
    response,         \* Optional: outcome of the last /ask request
    llm_outcome,      \* how the generative backend fared in the last call
    tts_outcome,      \* how speech synthesis fared in the last /ask
    stt_outcome,      \* how speech-to-text fared in the last /transcribe
    sessions_file,    \* Optional: contents of data/transcriptions/sessions.json
    session_files,    \* session id -> contents of data/transcriptions/<id>.json
    active_transcription_session,  \* Optional[str]: global (app.py:679)
    segment_requests, \* the add_transcription_segment calls: where each one
                      \* stands and the session data it has loaded
    letters_file,     \* Optional: contents of data/letters/letters.json
    letter_files      \* letter id -> contents of data/letters/<id>.json

\* The request under study, the globals set at startup, the outcomes of the
\* calls made so far, and the transcription store.
request == <<transcript, procedure_type>>
backends ==
    <<mock_data, gemini_model, openai_client, whisper_model, WHISPER_AVAILABLE>>
outcomes ==
    <<parsed, first_parsed, rule_answer, llm_answer, response, llm_outcome,
      tts_outcome, stt_outcome>>
letters == <<letters_file, letter_files>>
storage ==
    <<sessions_file, session_files, active_transcription_session, letters>>

vars == <<request, backends, outcomes, storage, segment_requests>>

(***************************************************************************)
(* Bounds of the model.                                                    *)
(***************************************************************************)
\* Phrases joined into one transcript.
MaxPhrases == 3
\* Transcription sessions started in one behaviour.
MaxSessions == 1
\* Transcription sessions started in one behaviour of the session lifecycle.
MaxStarts == 2
\* add_transcription_segment calls made in one behaviour.
MaxSegmentRequests == 2
\* Letters generated in one behaviour.
MaxLetters == 1

(***************************************************************************)
(* Python built-ins.                                                       *)
(***************************************************************************)
None == <<>>
Some(v) == <<v>>

Ret(v) == [raised |-> FALSE, value |-> v]
Raise(e) == [raised |-> TRUE, value |-> e]

UpperCase == "ABCDEFGHIJKLMNOPQRSTUVWXYZ"
LowerCase == "abcdefghijklmnopqrstuvwxyz"
Digits == "0123456789"

CharAt(s, i) == SubSeq(s, i, i)

\* Mutant: matches the keyword only at the start of the string.
ContainsPrefixOnly(s, k) == Len(k) <= Len(s) /\ SubSeq(s, 1, Len(k)) = k

\* k in s
Contains(s, k) ==
    \E i \in 1..(Len(s) - Len(k) + 1) : SubSeq(s, i, i + Len(k) - 1) = k

UpperChars == {CharAt(UpperCase, i) : i \in 1..26}

LowerOf ==
    [c \in UpperChars |->
        CharAt(LowerCase, CHOOSE i \in 1..26 : CharAt(UpperCase, i) = c)]

\* The characters i..j of s, with those at the positions `upper` replaced by
\* their lower-case letter (by halves, to keep the recursion shallow on long
\* prompts).
RECURSIVE LowerRange(_, _, _, _)
LowerRange(s, upper, i, j) ==
    LET here == {u \in upper : i <= u /\ u <= j}
    IN  IF here = {} THEN SubSeq(s, i, j)
        ELSE IF i = j THEN LowerOf[CharAt(s, i)]
        ELSE LET m == (i + j) \div 2
             IN  LowerRange(s, here, i, m) \o LowerRange(s, here, m + 1, j)

\* Mutant: the string is matched as typed.
LowerIdentity(s) == s

\* s.lower()
Lower(s) ==
    LowerRange(s, {i \in 1..Len(s) : CharAt(s, i) \in UpperChars}, 1, Len(s))

IsDigit(c) == \E i \in 1..10 : CharAt(Digits, i) = c

\* re.search(r'(\d{8})', s): Optional, the leftmost run of eight digits
SearchEightDigits(s) ==
    LET hits == {i \in 1..(Len(s) - 7) :
                    \A j \in i..(i + 7) : IsDigit(CharAt(s, j))}
    IN  IF hits = {} THEN None
        ELSE LET first == CHOOSE i \in hits : \A j \in hits : i <= j
             IN  Some(SubSeq(s, first, first + 7))

RECURSIVE JoinFrom(_, _, _)
JoinFrom(sep, xs, i) ==
    IF i > Len(xs) THEN ""
    ELSE IF i = Len(xs) THEN xs[i]
    ELSE xs[i] \o sep \o JoinFrom(sep, xs, i + 1)

\* sep.join(xs)
Join(sep, xs) == JoinFrom(sep, xs, 1)

\* [c] if cond else []
When(cond, c) == IF cond THEN <<c>> ELSE <<>>

RECURSIVE NatToStr(_)
NatToStr(n) ==
    IF n < 10 THEN CharAt(Digits, n + 1)
    ELSE NatToStr(n \div 10) \o CharAt(Digits, (n % 10) + 1)

\* str(n) for an int
IntToStr(n) == IF n < 0 THEN "-" \o NatToStr(-n) ELSE NatToStr(n)

(***************************************************************************)
(* JSON values, as json.load builds them: a dict keeps the order of its    *)
(* keys (items is a sequence of <<key, value>>), a float is kept as the    *)
(* text Python prints for it.                                              *)
(***************************************************************************)
DictV(items) == [kind |-> "dict", items |-> items]
ListV(items) == [kind |-> "list", items |-> items]
StrV(s) == [kind |-> "str", s |-> s]
IntV(n) == [kind |-> "int", n |-> n]
FloatV(text) == [kind |-> "float", s |-> text]
NoneV == [kind |-> "none"]
EmptyDict == DictV(<<>>)

\* k in d
HasKey(d, k) == \E i \in 1..Len(d.items) : d.items[i][1] = k

\* d[k], for a key that is present
Index(d, k) == d.items[CHOOSE i \in 1..Len(d.items) : d.items[i][1] = k][2]

\* d.get(k, default)
GetOr(d, k, default) == IF HasKey(d, k) THEN Index(d, k) ELSE default

\* d.get(k): Optional
Get(d, k) == IF HasKey(d, k) THEN Some(Index(d, k)) ELSE None

\* list(d.values())
Values(d) == [i \in 1..Len(d.items) |-> d.items[i][2]]

\* bool(v)
Truthy(v) ==
    CASE v.kind = "dict" -> v.items # <<>>
      [] v.kind = "list" -> v.items # <<>>
      [] v.kind = "str" -> v.s # ""
      [] v.kind = "int" -> v.n # 0
      [] v.kind = "none" -> FALSE
      [] OTHER -> TRUE

\* f"{v}" for a str, an int or a float
Format(v) ==
    CASE v.kind = "str" -> v.s
      [] v.kind = "int" -> IntToStr(v.n)
      [] v.kind = "float" -> v.s

\* The smallest element of a non-empty set of integers.
Least(S) == CHOOSE i \in S : \A j \in S : i <= j

(***************************************************************************)
(* parse_command (app.py:309-497).  Each block of the function is one      *)
(* operator on the lower-cased transcript tl; parse_command appends their  *)
(* results in the order of the source.                                     *)
(***************************************************************************)
\* Mutant: the lifecycle rules are chained with elif, so only the first
\* fires.
transcription_commands_exclusive(tl, proc) ==
    IF Contains(tl, "start transcription")
    THEN <<[action |-> "start_transcription", procedure_type |-> proc]>>
    ELSE IF Contains(tl, "stop transcription")
    THEN <<[action |-> "stop_transcription"]>>
    ELSE IF Contains(tl, "create doctor") /\ Contains(tl, "letter")
    THEN <<[action |-> "generate_letter"]>>
    ELSE IF Contains(tl, "show doctor") /\ Contains(tl, "letter")
    THEN <<[action |-> "show_letter"]>>
    ELSE <<>>

\* app.py:313-334
transcription_commands_of(tl, proc) ==
    When(Contains(tl, "start transcription"),
         [action |-> "start_transcription", procedure_type |-> proc])
    \o When(Contains(tl, "stop transcription"),
            [action |-> "stop_transcription"])
    \o When(Contains(tl, "create doctor") /\ Contains(tl, "letter"),
            [action |-> "generate_letter"])
    \o When(Contains(tl, "show doctor") /\ Contains(tl, "letter"),
            [action |-> "show_letter"])

\* Mutant: "right" is tested before "left".
lab_position_right_first(tl) ==
    IF Contains(tl, "right") THEN "right"
    ELSE IF Contains(tl, "left") THEN "left"
    ELSE "center"

\* app.py:344
lab_position(tl) ==
    IF Contains(tl, "left") THEN "left"
    ELSE IF Contains(tl, "right") THEN "right"
    ELSE "center"

\* app.py:371-373
series_id_of(tl) ==
    LET series_match == SearchEightDigits(tl)
    IN  IF series_match # None THEN series_match[1] ELSE "17155540"

\* Mutant: the show rules are chained with elif, so only the first fires.
show_commands_exclusive(tl) ==
    IF Contains(tl, "show") \/ Contains(tl, "display")
    THEN IF Contains(tl, "lab")
         THEN <<[action |-> "show", target |-> "lab_results",
                 position |-> lab_position(tl)]>>
         ELSE IF Contains(tl, "imaging") \/ Contains(tl, "image")
         THEN <<[action |-> "show", target |-> "imaging", position |-> "center"]>>
         ELSE IF Contains(tl, "vital")
         THEN <<[action |-> "show", target |-> "vitals", position |-> "right"]>>
         ELSE IF Contains(tl, "vtk") \/ Contains(tl, "3d") \/ Contains(tl, "cpo")
         THEN <<[action |-> "show", target |-> "vtk",
                 data |-> [filename |-> "CPO_ist.vtk"]]>>
         ELSE IF Contains(tl, "dicom") \/ Contains(tl, "scan")
                 \/ (Contains(tl, "image") /\ Contains(tl, "medical"))
         THEN <<[action |-> "show", target |-> "dicom",
                 data |-> [seriesId |-> series_id_of(tl)]]>>
         ELSE <<>>
    ELSE <<>>

\* app.py:339-378
show_commands(tl) ==
    IF Contains(tl, "show") \/ Contains(tl, "display")
    THEN When(Contains(tl, "lab"),
              [action |-> "show", target |-> "lab_results",
               position |-> lab_position(tl)])
         \o When(Contains(tl, "imaging") \/ Contains(tl, "image"),
                 [action |-> "show", target |-> "imaging", position |-> "center"])
         \o When(Contains(tl, "vital"),
                 [action |-> "show", target |-> "vitals", position |-> "right"])
         \o When(Contains(tl, "vtk") \/ Contains(tl, "3d") \/ Contains(tl, "cpo"),
                 LET filename == IF Contains(tl, "cpo") THEN "CPO_ist.vtk"
                                 ELSE "CPO_ist.vtk"
                 IN  [action |-> "show", target |-> "vtk",
                      data |-> [filename |-> filename]])
         \o When(Contains(tl, "dicom") \/ Contains(tl, "scan")
                     \/ (Contains(tl, "image") /\ Contains(tl, "medical")),
                 [action |-> "show", target |-> "dicom",
                  data |-> [seriesId |-> series_id_of(tl)]])
    ELSE <<>>

\* 1/x for a float <<n, d>>
Reciprocal(x) == <<x[2], x[1]>>

\* Mutant: the zoom-out test comes before the 2x and 3x tests.
zoom_level_out_first(tl) ==
    IF Contains(tl, "zoom out") \/ Contains(tl, "out") THEN Reciprocal(<<3, 2>>)
    ELSE IF Contains(tl, "2x") THEN <<2, 1>>
    ELSE IF Contains(tl, "3x") THEN <<3, 1>>
    ELSE <<3, 2>>

\* app.py:384-391: 1.5 is <<3, 2>>, 2.0 is <<2, 1>>, 3.0 is <<3, 1>>
zoom_level_of(tl) ==
    IF Contains(tl, "2x") THEN <<2, 1>>
    ELSE IF Contains(tl, "3x") THEN <<3, 1>>
    ELSE IF Contains(tl, "zoom out") \/ Contains(tl, "out") THEN Reciprocal(<<3, 2>>)
    ELSE <<3, 2>>

\* app.py:380-396
zoom_commands(tl) ==
    IF Contains(tl, "zoom")
    THEN When(Contains(tl, "3d") \/ Contains(tl, "model"),
              [action |-> "zoom", target |-> "3d",
               data |-> [zoom_level |-> zoom_level_of(tl)]])
    ELSE <<>>

\* Mutant: "reset" or a view word is enough (or for and).
reset_commands_either(tl) ==
    When(Contains(tl, "reset") \/ (Contains(tl, "view") \/ Contains(tl, "3d")),
         [action |-> "reset", target |-> "3d"])

\* app.py:398-402
reset_commands(tl) ==
    When(Contains(tl, "reset") /\ (Contains(tl, "view") \/ Contains(tl, "3d")),
         [action |-> "reset", target |-> "3d"])

\* Mutant: the previous rule is an elif of the next rule.
navigation_commands_exclusive(tl) ==
    IF Contains(tl, "next") /\ (Contains(tl, "image") \/ Contains(tl, "slice"))
    THEN <<[action |-> "next", target |-> "dicom"]>>
    ELSE When(Contains(tl, "previous")
                  /\ (Contains(tl, "image") \/ Contains(tl, "slice")),
              [action |-> "previous", target |-> "dicom"])

\* app.py:404-415
navigation_commands(tl) ==
    When(Contains(tl, "next") /\ (Contains(tl, "image") \/ Contains(tl, "slice")),
         [action |-> "next", target |-> "dicom"])
    \o When(Contains(tl, "previous")
                /\ (Contains(tl, "image") \/ Contains(tl, "slice")),
            [action |-> "previous", target |-> "dicom"])

\* app.py:417-425
rotate_commands(tl) ==
    When(Contains(tl, "rotate")
             /\ (Contains(tl, "view") \/ Contains(tl, "3d") \/ Contains(tl, "model")),
         LET direction == IF Contains(tl, "left") THEN "left"
                          ELSE IF Contains(tl, "right") THEN "right"
                          ELSE "left"
             angle == 15
         IN  [action |-> "rotate", target |-> "3d",
              data |-> [direction |-> direction, angle |-> angle]])

\* Mutant: the target tests are independent ifs, one command per match.
close_commands_additive(tl) ==
    IF Contains(tl, "close") \/ Contains(tl, "hide")
    THEN When(Contains(tl, "patient"), [action |-> "close", target |-> "patient"])
         \o When(Contains(tl, "monitoring") \/ Contains(tl, "vitals"),
                 [action |-> "close", target |-> "monitoring"])
         \o When(Contains(tl, "3d") \/ Contains(tl, "vtk"),
                 [action |-> "close", target |-> "3d"])
         \o When(Contains(tl, "dicom") \/ Contains(tl, "image"),
                 [action |-> "close", target |-> "dicom"])
         \o When(Contains(tl, "voice") \/ Contains(tl, "command"),
                 [action |-> "close", target |-> "voice"])
    ELSE <<>>

\* app.py:427-453
close_commands(tl) ==
    IF Contains(tl, "close") \/ Contains(tl, "hide")
    THEN IF Contains(tl, "patient")
         THEN <<[action |-> "close", target |-> "patient"]>>
         ELSE IF Contains(tl, "monitoring") \/ Contains(tl, "vitals")
         THEN <<[action |-> "close", target |-> "monitoring"]>>
         ELSE IF Contains(tl, "3d") \/ Contains(tl, "vtk")
         THEN <<[action |-> "close", target |-> "3d"]>>
         ELSE IF Contains(tl, "dicom") \/ Contains(tl, "image")
         THEN <<[action |-> "close", target |-> "dicom"]>>
         ELSE IF Contains(tl, "voice") \/ Contains(tl, "command")
         THEN <<[action |-> "close", target |-> "voice"]>>
         ELSE <<>>
    ELSE <<>>

\* Mutant: monitoring is tested before patient.
open_commands_monitoring_first(tl) ==
    IF Contains(tl, "open") /\ Contains(tl, "panel")
    THEN IF Contains(tl, "monitoring") \/ Contains(tl, "vitals")
         THEN <<[action |-> "open", target |-> "monitoring"]>>
         ELSE IF Contains(tl, "patient")
         THEN <<[action |-> "open", target |-> "patient"]>>
         ELSE IF Contains(tl, "3d") \/ Contains(tl, "vtk")
         THEN <<[action |-> "open", target |-> "3d"]>>
         ELSE IF Contains(tl, "dicom") \/ Contains(tl, "image")
         THEN <<[action |-> "open", target |-> "dicom"]>>
         ELSE IF Contains(tl, "voice") \/ Contains(tl, "command")
         THEN <<[action |-> "open", target |-> "voice"]>>
         ELSE <<>>
    ELSE <<>>

\* app.py:455-481
open_commands(tl) ==
    IF Contains(tl, "open") /\ Contains(tl, "panel")
    THEN IF Contains(tl, "patient")
         THEN <<[action |-> "open", target |-> "patient"]>>
         ELSE IF Contains(tl, "monitoring") \/ Contains(tl, "vitals")
         THEN <<[action |-> "open", target |-> "monitoring"]>>
         ELSE IF Contains(tl, "3d") \/ Contains(tl, "vtk")
         THEN <<[action |-> "open", target |-> "3d"]>>
         ELSE IF Contains(tl, "dicom") \/ Contains(tl, "image")
         THEN <<[action |-> "open", target |-> "dicom"]>>
         ELSE IF Contains(tl, "voice") \/ Contains(tl, "command")
         THEN <<[action |-> "open", target |-> "voice"]>>
         ELSE <<>>
    ELSE <<>>

\* Mutant: the transcription test is applied last and overrides alert.
command_type_transcription_last(tl, display_commands, transcription_commands) ==
    LET t0 == "query"
        t1 == IF display_commands # <<>> THEN "control" ELSE t0
        t2 == IF Contains(tl, "alert") \/ Contains(tl, "warning")
              THEN "alert" ELSE t1
        t3 == IF transcription_commands # <<>> THEN "transcription" ELSE t2
    IN  t3

\* app.py:483-490: three assignments in sequence, the last one that fires wins
command_type_of(tl, display_commands, transcription_commands) ==
    LET t0 == "query"
        t1 == IF display_commands # <<>> THEN "control" ELSE t0
        t2 == IF transcription_commands # <<>> THEN "transcription" ELSE t1
        t3 == IF Contains(tl, "alert") \/ Contains(tl, "warning")
              THEN "alert" ELSE t2
    IN  t3

\* Mutant: the close and open rules are evaluated before the show rules.
parse_command_close_first(t, proc) ==
    LET transcript_lower == Lower(t)
        transcription_commands == transcription_commands_of(transcript_lower, proc)
        display_commands ==
            close_commands(transcript_lower)
            \o open_commands(transcript_lower)
            \o show_commands(transcript_lower)
            \o zoom_commands(transcript_lower)
            \o reset_commands(transcript_lower)
            \o navigation_commands(transcript_lower)
            \o rotate_commands(transcript_lower)
    IN  [command_type |-> command_type_of(transcript_lower, display_commands,
                                          transcription_commands),
         display_commands |-> display_commands,
         transcription_commands |-> transcription_commands,
         query |-> t]

\* Mutant: while a transcription session is active the parser emits no
\* transcription commands, so its result depends on the service's state.
parse_command_session_aware(t, proc) ==
    LET transcript_lower == Lower(t)
        transcription_commands ==
            IF active_transcription_session # None THEN <<>>
            ELSE transcription_commands_of(transcript_lower, proc)
        display_commands ==
            show_commands(transcript_lower)
            \o zoom_commands(transcript_lower)
            \o reset_commands(transcript_lower)
            \o navigation_commands(transcript_lower)
            \o rotate_commands(transcript_lower)
            \o close_commands(transcript_lower)
            \o open_commands(transcript_lower)
    IN  [command_type |-> command_type_of(transcript_lower, display_commands,
                                          transcription_commands),
         display_commands |-> display_commands,
         transcription_commands |-> transcription_commands,
         query |-> t]

\* app.py:309-497
parse_command(t, proc) ==
    LET transcript_lower == Lower(t)
        transcription_commands == transcription_commands_of(transcript_lower, proc)
        display_commands ==
            show_commands(transcript_lower)
            \o zoom_commands(transcript_lower)
            \o reset_commands(transcript_lower)
            \o navigation_commands(transcript_lower)
            \o rotate_commands(transcript_lower)
            \o close_commands(transcript_lower)
            \o open_commands(transcript_lower)
    IN  [command_type |-> command_type_of(transcript_lower, display_commands,
                                          transcription_commands),
         display_commands |-> display_commands,
         transcription_commands |-> transcription_commands,
         query |-> t]

(***************************************************************************)
(* generate_rule_based_response (app.py:519-615).  Each `if` block of the  *)
(* function is one operator on the lower-cased query ql: it gives          *)
(* Some(outcome) when the block returns (or raises) and None when control  *)
(* falls through to the next block.  The blocks read the global mock_data. *)
(***************************************************************************)
\* Mutant: the block ends with an else branch, so it always returns.
vtk_answer_closed(ql) ==
    IF Contains(ql, "vtk") \/ Contains(ql, "3d") \/ Contains(ql, "cpo")
    THEN IF Contains(ql, "open") \/ Contains(ql, "load") \/ Contains(ql, "show")
         THEN Some(Ret("Loading VTK file for 3D visualization. The model will appear in the 3D viewer panel."))
         ELSE IF Contains(ql, "zoom")
         THEN Some(Ret("Zooming 3D model view. Use voice commands to control the visualization."))
         ELSE IF Contains(ql, "reset")
         THEN Some(Ret("Resetting 3D view orientation to default position."))
         ELSE Some(Ret("Rotating 3D model view. Use voice commands to control the orientation."))
    ELSE None

\* app.py:525-534
vtk_answer(ql) ==
    IF Contains(ql, "vtk") \/ Contains(ql, "3d") \/ Contains(ql, "cpo")
    THEN IF Contains(ql, "open") \/ Contains(ql, "load") \/ Contains(ql, "show")
         THEN Some(Ret("Loading VTK file for 3D visualization. The model will appear in the 3D viewer panel."))
         ELSE IF Contains(ql, "zoom")
         THEN Some(Ret("Zooming 3D model view. Use voice commands to control the visualization."))
         ELSE IF Contains(ql, "reset")
         THEN Some(Ret("Resetting 3D view orientation to default position."))
         ELSE IF Contains(ql, "rotate")
         THEN Some(Ret("Rotating 3D model view. Use voice commands to control the orientation."))
         ELSE None
    ELSE None

\* app.py:537: any(word in query_lower for word in [...])
ModalityWords == {"medical", "ct", "mri", "xray", "x-ray"}

\* app.py:536-545
dicom_answer(ql) ==
    IF Contains(ql, "dicom") \/ Contains(ql, "scan")
       \/ (Contains(ql, "image") /\ \E word \in ModalityWords : Contains(ql, word))
    THEN IF Contains(ql, "open") \/ Contains(ql, "load") \/ Contains(ql, "show")
         THEN Some(Ret("Loading DICOM medical images. The images will appear in the DICOM viewer panel. Use mouse wheel or voice commands to navigate through the series."))
         ELSE IF Contains(ql, "next")
         THEN Some(Ret("Moving to next DICOM image in the series."))
         ELSE IF Contains(ql, "previous") \/ Contains(ql, "prev")
         THEN Some(Ret("Moving to previous DICOM image in the series."))
         ELSE IF Contains(ql, "series")
         THEN Some(Ret("DICOM series contains multiple medical images. Use navigation commands to scroll through them."))
         ELSE None
    ELSE None

\* app.py:547-560
close_answer(ql) ==
    IF Contains(ql, "close") \/ Contains(ql, "hide")
    THEN IF Contains(ql, "patient")
         THEN Some(Ret("Closing patient information panel."))
         ELSE IF Contains(ql, "monitoring") \/ Contains(ql, "vitals")
         THEN Some(Ret("Closing procedural monitoring panel."))
         ELSE IF Contains(ql, "3d") \/ Contains(ql, "vtk")
         THEN Some(Ret("Closing 3D visualization panel."))
         ELSE IF Contains(ql, "dicom") \/ Contains(ql, "image")
         THEN Some(Ret("Closing DICOM viewer panel."))
         ELSE IF Contains(ql, "voice") \/ Contains(ql, "command")
         THEN Some(Ret("Closing voice command panel."))
         ELSE Some(Ret("Please specify which panel to close: patient, monitoring, 3D, DICOM, or voice."))
    ELSE None

\* app.py:562-575
open_answer(ql) ==
    IF Contains(ql, "open") /\ Contains(ql, "panel")
    THEN IF Contains(ql, "patient")
         THEN Some(Ret("Opening patient information panel."))
         ELSE IF Contains(ql, "monitoring") \/ Contains(ql, "vitals")
         THEN Some(Ret("Opening procedural monitoring panel."))
         ELSE IF Contains(ql, "3d") \/ Contains(ql, "vtk")
         THEN Some(Ret("Opening 3D visualization panel."))
         ELSE IF Contains(ql, "dicom") \/ Contains(ql, "image")
         THEN Some(Ret("Opening DICOM viewer panel."))
         ELSE IF Contains(ql, "voice") \/ Contains(ql, "command")
         THEN Some(Ret("Opening voice command panel."))
         ELSE Some(Ret("Please specify which panel to open: patient, monitoring, 3D, DICOM, or voice."))
    ELSE None

\* mock_data.get("procedures", {})
Procedures == GetOr(mock_data, "procedures", EmptyDict)

\* procedure["patient"]["labs"].get(name) of the procedures that have labs and
\* a truthy entry of that name, in the order of mock_data (app.py:579-582,
\* 601-604)
TruthyLabEntries(name) ==
    LET procs == Values(Procedures)
        HasEntry(procedure) ==
            /\ HasKey(GetOr(procedure, "patient", EmptyDict), "labs")
            /\ LET entry == Get(Index(Index(procedure, "patient"), "labs"), name)
               IN  entry # None /\ Truthy(entry[1])
    IN  [i \in 1..Len(SelectSeq(procs, HasEntry)) |->
            Index(Index(Index(SelectSeq(procs, HasEntry)[i], "patient"), "labs"),
                  name)]

\* Mutant: a missing value or unit is rendered as "N/A" instead of raising.
creatinine_answer_tolerant(ql) ==
    IF Contains(ql, "creatinine") /\ TruthyLabEntries("creatinine") # <<>>
    THEN LET creat == TruthyLabEntries("creatinine")[1]
         IN  Some(Ret("Creatinine is " \o Format(GetOr(creat, "value", StrV("N/A")))
                      \o " " \o Format(GetOr(creat, "unit", StrV("N/A")))
                      \o ", eGFR "
                      \o Format(GetOr(creat, "egfr", StrV("not available")))
                      \o ". Consider contrast nephropathy risk."))
    ELSE None

\* app.py:577-583: creat['value'] and creat['unit'] raise KeyError when the
\* key is missing
creatinine_answer(ql) ==
    IF Contains(ql, "creatinine") /\ TruthyLabEntries("creatinine") # <<>>
    THEN LET creat == TruthyLabEntries("creatinine")[1]
         IN  IF ~HasKey(creat, "value") THEN Some(Raise("KeyError: 'value'"))
             ELSE IF ~HasKey(creat, "unit") THEN Some(Raise("KeyError: 'unit'"))
             ELSE Some(Ret("Creatinine is " \o Format(Index(creat, "value"))
                           \o " " \o Format(Index(creat, "unit"))
                           \o ", eGFR "
                           \o Format(GetOr(creat, "egfr", StrV("not available")))
                           \o ". Consider contrast nephropathy risk."))
    ELSE None

\* app.py:585-591
contrast_answer(ql) ==
    LET pad_data == GetOr(Procedures, "pad_angioplasty", EmptyDict)
    IN  IF Contains(ql, "contrast") /\ Truthy(pad_data)
        THEN LET intraop == GetOr(pad_data, "intraopData", EmptyDict)
                 used == GetOr(intraop, "contrastUsed", IntV(0))
                 max_contrast == GetOr(intraop, "maxContrast", IntV(100))
             IN  Some(Ret("Contrast used: " \o Format(used) \o "mL of maximum "
                          \o Format(max_contrast) \o "mL. "
                          \o IntToStr(max_contrast.n - used.n)
                          \o "mL remaining."))
        ELSE None

\* app.py:593-597
allergy_answer(ql) ==
    LET procs == Values(Procedures)
        AllergiesOf(procedure) ==
            GetOr(GetOr(procedure, "patient", EmptyDict), "allergies", ListV(<<>>))
        HasAllergies(procedure) == Truthy(AllergiesOf(procedure))
    IN  IF Contains(ql, "allerg") /\ SelectSeq(procs, HasAllergies) # <<>>
        THEN LET allergies == AllergiesOf(SelectSeq(procs, HasAllergies)[1]).items
             IN  Some(Ret("Patient allergies: "
                          \o Join(", ", [i \in 1..Len(allergies) |-> allergies[i].s])
                          \o ". Use with caution."))
        ELSE None

\* app.py:599-605: inr['value'] and inr['date'] raise KeyError when the key
\* is missing
inr_answer(ql) ==
    IF (Contains(ql, "inr") \/ Contains(ql, "anticoag"))
       /\ TruthyLabEntries("inr") # <<>>
    THEN LET inr == TruthyLabEntries("inr")[1]
         IN  IF ~HasKey(inr, "value") THEN Some(Raise("KeyError: 'value'"))
             ELSE IF ~HasKey(inr, "date") THEN Some(Raise("KeyError: 'date'"))
             ELSE Some(Ret("INR is " \o Format(Index(inr, "value")) \o " on "
                           \o Format(Index(inr, "date"))
                           \o ". Patient is adequately anticoagulated."))
    ELSE None

\* app.py:607-613
electrolyte_answer(ql) ==
    LET ep_data == GetOr(Procedures, "ep_ablation", EmptyDict)
    IN  IF (Contains(ql, "potassium") \/ Contains(ql, "electrolyte"))
           /\ Truthy(ep_data)
        THEN LET labs == GetOr(GetOr(ep_data, "patient", EmptyDict), "labs",
                               EmptyDict)
                 k == GetOr(labs, "potassium", EmptyDict)
                 mg == GetOr(labs, "magnesium", EmptyDict)
             IN  Some(Ret("Potassium: " \o Format(GetOr(k, "value", StrV("N/A")))
                          \o " " \o Format(GetOr(k, "unit", StrV("")))
                          \o ", Magnesium: "
                          \o Format(GetOr(mg, "value", StrV("N/A")))
                          \o " " \o Format(GetOr(mg, "unit", StrV("")))
                          \o ". Electrolytes are within normal range."))
        ELSE None

DefaultAnswer ==
    "I can help you with patient data, lab values, procedural parameters, display controls, 3D visualization, and DICOM medical imaging. Please specify what information you need."

\* Mutant: the dataset is checked after the four control categories.
generate_rule_based_response_data_checked_late(query) ==
    LET query_lower == Lower(query)
        vtk == vtk_answer(query_lower)
        dicom == dicom_answer(query_lower)
        close == close_answer(query_lower)
        open == open_answer(query_lower)
    IN  IF vtk # None THEN vtk[1]
        ELSE IF dicom # None THEN dicom[1]
        ELSE IF close # None THEN close[1]
        ELSE IF open # None THEN open[1]
        ELSE IF ~Truthy(mock_data)
        THEN Ret("Medical data is not available at this time.")
        ELSE Ret(DefaultAnswer)

\* app.py:519-615
generate_rule_based_response(query) ==
    LET query_lower == Lower(query)
        vtk == vtk_answer(query_lower)
        dicom == dicom_answer(query_lower)
        close == close_answer(query_lower)
        open == open_answer(query_lower)
        creatinine == creatinine_answer(query_lower)
        contrast == contrast_answer(query_lower)
        allergy == allergy_answer(query_lower)
        inr == inr_answer(query_lower)
        electrolyte == electrolyte_answer(query_lower)
    IN  IF ~Truthy(mock_data)
        THEN Ret("Medical data is not available at this time.")
        ELSE IF vtk # None THEN vtk[1]
        ELSE IF dicom # None THEN dicom[1]
        ELSE IF close # None THEN close[1]
        ELSE IF open # None THEN open[1]
        ELSE IF creatinine # None THEN creatinine[1]
        ELSE IF contrast # None THEN contrast[1]
        ELSE IF allergy # None THEN allergy[1]
        ELSE IF inr # None THEN inr[1]
        ELSE IF electrolyte # None THEN electrolyte[1]
        ELSE Ret(DefaultAnswer)

(***************************************************************************)
(* The /ask pipeline (app.py:787-839): prompt, answer text, speech, and    *)
(* the response the endpoint gives.                                        *)
(***************************************************************************)
\* SYSTEM_PROMPTS["pad_angioplasty"]
SYSTEM_PROMPT_PAD_ANGIOPLASTY ==
    "\n"
    \o "    You are a sterile-field OR voice assistant for Peripheral Arterial Disease (PAD) angioplasty procedures.\n"
    \o "    Your role is to provide concise, accurate information about patient data, procedural parameters, and safety alerts.\n"
    \o "    \n"
    \o "    Key responsibilities:\n"
    \o "    - Provide patient lab values, imaging results, and vital signs\n"
    \o "    - Monitor contrast usage and radiation exposure\n"
    \o "    - Alert about contraindications and allergies\n"
    \o "    - Support procedural decision-making with relevant data\n"
    \o "    - Execute display commands for visual information\n"
    \o "    - Control 3D visualization of VTK models and anatomical structures\n"
    \o "    \n"
    \o "    Available VTK/3D commands:\n"
    \o "    - \"Open VTK file\" or \"Load CPO model\" - loads 3D visualization\n"
    \o "    - \"Zoom 3D model\" - magnifies the 3D view\n"
    \o "    - \"Reset 3D view\" - returns to default camera position\n"
    \o "    - \"Rotate view\" - adjusts 3D orientation\n"
    \o "    \n"
    \o "    Available DICOM commands:\n"
    \o "    - \"Show DICOM images\" or \"Load medical scan\" - displays medical images\n"
    \o "    - \"Next image\" or \"Previous image\" - navigates through image series\n"
    \o "    - \"Load series [ID]\" - loads specific DICOM series by ID\n"
    \o "    \n"
    \o "    Available Panel Control commands:\n"
    \o "    - \"Close patient panel\" or \"Hide patient\" - closes patient information panel\n"
    \o "    - \"Close monitoring\" or \"Hide vitals\" - closes procedural monitoring panel\n"
    \o "    - \"Close 3D panel\" or \"Hide VTK\" - closes 3D visualization panel\n"
    \o "    - \"Close DICOM\" or \"Hide image panel\" - closes DICOM viewer panel\n"
    \o "    - \"Open patient panel\" or \"Open monitoring\" - reopens closed panels\n"
    \o "    \n"
    \o "    Always respond with short, clear medical language appropriate for the sterile field.\n"
    \o "    Include relevant safety considerations in your responses.\n"
    \o "    "

\* SYSTEM_PROMPTS["ep_ablation"]
SYSTEM_PROMPT_EP_ABLATION ==
    "\n"
    \o "    You are a sterile-field OR voice assistant for Electrophysiology (EP) ablation procedures.\n"
    \o "    Your role is to provide critical electrophysiology data, procedural parameters, and safety information.\n"
    \o "    \n"
    \o "    Key responsibilities:\n"
    \o "    - Provide cardiac history, ECG data, and electrolyte levels\n"
    \o "    - Monitor ablation parameters and mapping progress\n"
    \o "    - Alert about anticoagulation status and bleeding risks\n"
    \o "    - Support procedural milestones and endpoint assessment\n"
    \o "    - Execute display commands for cardiac data visualization\n"
    \o "    - Control 3D visualization of cardiac structures and mapping data\n"
    \o "    \n"
    \o "    Available VTK/3D commands:\n"
    \o "    - \"Show 3D heart model\" - displays cardiac anatomy\n"
    \o "    - \"Reset cardiac view\" - returns to standard orientation\n"
    \o "    \n"
    \o "    Available DICOM commands:\n"
    \o "    - \"Show cardiac images\" or \"Load heart scan\" - displays cardiac imaging\n"
    \o "    - \"Next slice\" or \"Previous slice\" - navigates through cardiac series\n"
    \o "    - \"Load cardiac CT\" - loads specific cardiac imaging series\n"
    \o "    \n"
    \o "    Available Panel Control commands:\n"
    \o "    - \"Close patient panel\" or \"Hide patient\" - closes patient information panel\n"
    \o "    - \"Close monitoring\" or \"Hide vitals\" - closes procedural monitoring panel\n"
    \o "    - \"Close 3D panel\" or \"Hide VTK\" - closes 3D visualization panel\n"
    \o "    - \"Close DICOM\" or \"Hide image panel\" - closes DICOM viewer panel\n"
    \o "    - \"Open patient panel\" or \"Open monitoring\" - reopens closed panels\n"
    \o "    \n"
    \o "    Always respond with precise EP terminology and include procedural safety considerations.\n"
    \o "    "
\* Mutant: an unknown procedure type gets no system prompt.
system_prompt_of_known_only(proc) ==
    IF proc = "ep_ablation" THEN SYSTEM_PROMPT_EP_ABLATION
    ELSE IF proc = "pad_angioplasty" THEN SYSTEM_PROMPT_PAD_ANGIOPLASTY
    ELSE ""

\* SYSTEM_PROMPTS.get(procedure_type, SYSTEM_PROMPTS["pad_angioplasty"])
\* (app.py:795)
system_prompt_of(proc) ==
    IF proc = "ep_ablation" THEN SYSTEM_PROMPT_EP_ABLATION
    ELSE SYSTEM_PROMPT_PAD_ANGIOPLASTY

\* The escape json.dumps writes for one character of a string.
EscapeChar(c) ==
    IF c = "\"" THEN "\\\""
    ELSE IF c = "\\" THEN "\\\\"
    ELSE IF c = "\n" THEN "\\n"
    ELSE IF c = "\t" THEN "\\t"
    ELSE c

\* The JSON string literal of s.
JsonString(s) ==
    "\"" \o Join("", [i \in 1..Len(s) |-> EscapeChar(CharAt(s, i))]) \o "\""

\* 2 * level spaces
Indent(level) == Join("", [i \in 1..(2 * level) |-> " "])

\* json.dumps(v, indent=2), for v nested at the given level
RECURSIVE JsonDumps(_, _)
JsonDumps(v, level) ==
    CASE v.kind = "dict" ->
            IF v.items = <<>> THEN "{}"
            ELSE "{\n"
                 \o Join(",\n",
                         [i \in 1..Len(v.items) |->
                             Indent(level + 1) \o JsonString(v.items[i][1]) \o ": "
                             \o JsonDumps(v.items[i][2], level + 1)])
                 \o "\n" \o Indent(level) \o "}"
      [] v.kind = "list" ->
            IF v.items = <<>> THEN "[]"
            ELSE "[\n"
                 \o Join(",\n",
                         [i \in 1..Len(v.items) |->
                             Indent(level + 1) \o JsonDumps(v.items[i], level + 1)])
                 \o "\n" \o Indent(level) \o "]"
      [] v.kind = "str" -> JsonString(v.s)
      [] v.kind = "int" -> IntToStr(v.n)
      [] OTHER -> v.s

\* app.py:798-801
context_data_of(proc) ==
    IF Truthy(mock_data) /\ HasKey(GetOr(mock_data, "procedures", EmptyDict), proc)
    THEN "Current patient: "
         \o JsonDumps(Index(Index(mock_data, "procedures"), proc), 0)
    ELSE ""

\* f"{request.transcript}": a missing transcript prints as None
FormatOptional(t) == IF t = None THEN "None" ELSE t[1]

\* app.py:803
full_prompt_of(t, proc) ==
    system_prompt_of(proc) \o "\n\nPatient Data:\n" \o context_data_of(proc)
    \o "\n\nQuery: " \o FormatOptional(t) \o "\n\nResponse:"

Whitespace == {" ", "\n", "\t", "\r"}

\* s.strip()
Strip(s) ==
    LET kept == {i \in 1..Len(s) : CharAt(s, i) \notin Whitespace}
    IN  IF kept = {} THEN ""
        ELSE SubSeq(s, Least(kept), CHOOSE i \in kept : \A j \in kept : j <= i)

\* os.path.basename(path)
Basename(path) ==
    LET slashes == {i \in 1..Len(path) : CharAt(path, i) = "/"}
    IN  IF slashes = {} THEN path
        ELSE SubSeq(path, (CHOOSE i \in slashes : \A j \in slashes : j <= i) + 1,
                    Len(path))

\* str(e) of an exception written "Type: message"
ExceptionStr(e) ==
    LET colons == {i \in 1..Len(e) - 1 : SubSeq(e, i, i + 1) = ": "}
    IN  IF colons = {} THEN e ELSE SubSeq(e, Least(colons) + 2, Len(e))

\* The call of a backend that was not made.
NotCalled == Raise("not called")

\* get_llm_response(prompt) (app.py:500-516), where generated is the outcome
\* of gemini_model.generate_content(prompt).text.
get_llm_response(prompt, generated) ==
    IF gemini_model /\ ~generated.raised
    THEN Ret(Strip(generated.value))
    ELSE LET fallback == generate_rule_based_response(prompt)
         IN  IF fallback.raised
             THEN generate_rule_based_response(prompt)
             ELSE fallback

\* Mutant: when the synthesis call raises, the path of the temporary file
\* created before the call is returned.
generate_speech_returns_empty_file(text, synthesized) ==
    IF ~openai_client THEN None
    ELSE IF synthesized.raised THEN Some("/tmp/tmpk3v9x2qa.mp3")
    ELSE Some(synthesized.value)

\* generate_speech(text) (app.py:204-238), where synthesized is the outcome of
\* the synthesis call and the value it returns the temporary file's path.
generate_speech(text, synthesized) ==
    IF ~openai_client THEN None
    ELSE IF synthesized.raised THEN None
    ELSE Some(synthesized.value)

\* The DisplayCommand pydantic builds from a command of parse_command
\* (app.py:82-86): position and data are optional.
DisplayCommand(c) ==
    [action |-> c.action,
     target |-> c.target,
     position |-> IF "position" \in DOMAIN c THEN Some(c.position) ELSE None,
     data |-> IF "data" \in DOMAIN c THEN Some(c.data) ELSE None]

\* app.py:815-819, for a transcript that is a string
visual_data_of(t, proc) ==
    IF Contains(Lower(t), "lab")
       /\ Truthy(mock_data)
       /\ HasKey(GetOr(mock_data, "procedures", EmptyDict), proc)
    THEN Some(GetOr(GetOr(Index(Index(mock_data, "procedures"), proc),
                          "patient", EmptyDict),
                    "labs", EmptyDict))
    ELSE None

\* Mutant: the critical test is an elif, so a warning is never escalated.
alert_level_of_warning_kept(t, llm_response) ==
    IF Contains(Lower(t), "allerg") \/ Contains(Lower(t), "contraindic")
    THEN "warning"
    ELSE IF Contains(Lower(llm_response), "critical")
            \/ Contains(Lower(llm_response), "emergency")
    THEN "critical"
    ELSE "info"

\* app.py:821-826, for a transcript that is a string
alert_level_of(t, llm_response) ==
    IF Contains(Lower(llm_response), "critical")
       \/ Contains(Lower(llm_response), "emergency")
    THEN "critical"
    ELSE IF Contains(Lower(t), "allerg") \/ Contains(Lower(t), "contraindic")
    THEN "warning"
    ELSE "info"

\* An HTTP response.
Ok(endpoint, body) == [endpoint |-> endpoint, status |-> 200, body |-> body]
HttpError(endpoint, status, detail) ==
    [endpoint |-> endpoint, status |-> status, body |-> [detail |-> detail]]

\* process_voice_command(request) (app.py:787-839) for the given outcomes of
\* the two backend calls.
process_voice_command(t, proc, generated, synthesized) ==
    LET parsed_command == parse_command(IF t = None THEN "" ELSE t[1], proc)
        llm_response == get_llm_response(full_prompt_of(t, proc), generated)
    IN  IF llm_response.raised
        THEN HttpError("/ask", 500,
                       "Command processing failed: "
                       \o ExceptionStr(llm_response.value))
        ELSE IF t = None
        THEN HttpError("/ask", 500,
                       "Command processing failed: 'NoneType' object has no attribute 'lower'")
        ELSE LET audio_path == generate_speech(llm_response.value, synthesized)
             IN  Ok("/ask",
                    [transcript |-> t[1],
                     response |-> llm_response.value,
                     visual_data |-> visual_data_of(t[1], proc),
                     display_commands |->
                         [i \in 1..Len(parsed_command.display_commands) |->
                             DisplayCommand(parsed_command.display_commands[i])],
                     alert_level |-> alert_level_of(t[1], llm_response.value),
                     audio_url |->
                         IF audio_path # None
                         THEN Some("/audio/" \o Basename(audio_path[1]))
                         ELSE None])

(***************************************************************************)
(* /transcribe (app.py:695-785).  read is the outcome of audio.read() and  *)
(* transcribed that of the one speech-to-text call the handler makes (the  *)
(* cloud API or the local model), its value the text returned.             *)
(***************************************************************************)
\* VoiceResponse(transcript=..., response=..., alert_level=...) (app.py:88-94)
VoiceResponse(t, text, alert_level) ==
    [transcript |-> t, response |-> text, visual_data |-> None,
     display_commands |-> None, alert_level |-> alert_level, audio_url |-> None]

\* app.py:776-785
FallbackTranscription ==
    Ok("/transcribe",
       VoiceResponse("What is the patient's creatinine level?",
                     "Transcription service unavailable, using fallback",
                     "warning"))

\* app.py:727-731, 762-766
Transcription(text) ==
    Ok("/transcribe",
       VoiceResponse(Strip(text), "Audio transcribed successfully", "info"))

\* Mutant: an error of the cloud API is reported to the caller.
transcribe_audio_cloud_error_reported(read, transcribed) ==
    IF whisper_model = "none" THEN FallbackTranscription
    ELSE IF read.raised THEN FallbackTranscription
    ELSE IF whisper_model = "openai_api" /\ openai_client
    THEN IF transcribed.raised
         THEN HttpError("/transcribe", 500,
                        "Transcription failed: " \o ExceptionStr(transcribed.value))
         ELSE Transcription(transcribed.value)
    ELSE IF WHISPER_AVAILABLE /\ whisper_model # "openai_api"
    THEN IF transcribed.raised THEN FallbackTranscription
         ELSE Transcription(transcribed.value)
    ELSE FallbackTranscription

\* transcribe_audio(audio, procedure_type) (app.py:695-785)
transcribe_audio(read, transcribed) ==
    IF whisper_model = "none" THEN FallbackTranscription
    ELSE IF read.raised THEN FallbackTranscription
    ELSE IF whisper_model = "openai_api" /\ openai_client /\ ~transcribed.raised
    THEN Transcription(transcribed.value)
    ELSE IF WHISPER_AVAILABLE /\ whisper_model # "openai_api"
    THEN IF transcribed.raised THEN FallbackTranscription
         ELSE Transcription(transcribed.value)
    ELSE FallbackTranscription

\* Which step of transcribe_audio failed, if any.
stt_outcome_of(read, transcribed) ==
    IF whisper_model = "none" THEN "no_backend"
    ELSE IF read.raised THEN "read_failed"
    ELSE IF whisper_model = "openai_api" /\ openai_client
    THEN IF transcribed.raised THEN "cloud_error" ELSE "transcribed"
    ELSE IF WHISPER_AVAILABLE /\ whisper_model # "openai_api"
    THEN IF transcribed.raised THEN "local_error" ELSE "transcribed"
    ELSE "no_method"

\* What audio.read() may give.
ReadOutcomes == {Ret("RIFF"), Raise("OSError: read of closed file")}

\* What the speech-to-text call may give.
TranscribeOutcomes ==
    {Ret(" Show labs and vitals. "), Ret("Any allergies?"), Ret("close 3d\n"),
     Ret("CRITICAL emergency"), Ret(""),
     Raise("APIConnectionError: Connection error."),
     Raise("RuntimeError: Failed to load audio")}

(***************************************************************************)
(* Inputs.  A transcript is up to MaxPhrases phrases of one phrase group,  *)
(* joined by single spaces, or one of the utterances the documentation     *)
(* quotes.  The groups put the keywords that interact in one rule          *)
(* together.                                                               *)
(***************************************************************************)
TranscriptsOver(phrases) ==
    {Join(" ", ws) : ws \in UNION {[1..n -> phrases] : n \in 0..MaxPhrases}}

ClassifyPhrases ==
    {"Alert", "warning", "start transcription", "show labs", "status"}

ShowPhrases ==
    {"show", "Display", "labs", "vitals", "3D", "scan", "medical image"}

ZoomPhrases == {"zoom", "Zoom 3D", "model", "2x", "3x", "out"}

ClosePhrases == {"close", "Hide", "patient", "vitals", "3d", "image", "command"}

OpenPhrases ==
    {"Open panel", "open", "patient", "monitoring", "vtk", "dicom", "voice"}

OtherPhrases ==
    {"next", "previous", "slice", "rotate model", "right", "reset view"}

PositionPhrases == {"show labs", "Left", "right", "display"}

NavigationPhrases == {"Next", "previous", "image", "slice"}

LifecyclePhrases ==
    {"Start transcription", "stop transcription", "create doctor", "show doctor",
     "letter"}

\* Utterances of the lifecycle phrases alone, one of them naming all four in
\* reverse order.
LifecycleTranscripts ==
    TranscriptsOver(LifecyclePhrases)
    \cup {"show doctor letter create doctor stop transcription start transcription"}

\* The utterances the documentation quotes.
QuotedTranscripts ==
    {"show labs and vitals", "close patient and vitals", "zoom 3d model 2x",
     "zoom 3d model", "zoom out 3d model", "close vitals and show labs",
     "What is the patient's creatinine level?"}

\* Utterances with the keywords the phrase groups leave out.
FurtherTranscripts ==
    {"display imaging of cpo left", "show vtk and dicom 20240101 right",
     "show image", "show medical", "close monitoring", "hide vtk",
     "close dicom viewer", "hide voice", "open 3d panel", "open image panel",
     "open vitals panel", "open command panel", "panel",
     "create doctor letter", "show doctor letter", "stop transcription",
     "rotate 3d left", "reset 3d", "next image", "zoom out",
     "hide patient and display labs",
     "open panel close rotate previous next image reset zoom 3d show scan vitals labs"}

ParserTranscripts ==
    UNION {TranscriptsOver(g) :
             g \in {ClassifyPhrases, ShowPhrases, ZoomPhrases, ClosePhrases,
                    OpenPhrases, OtherPhrases, PositionPhrases,
                    NavigationPhrases}}
    \cup QuotedTranscripts \cup FurtherTranscripts

ProcedureTypes == {"pad_angioplasty", "ep_ablation"}

(***************************************************************************)
(* Datasets: what load_mock_data may have put in mock_data.  The keys are  *)
(* those the code reads; entries are present, absent or short of fields.   *)
(***************************************************************************)
\* [(k, v)] if the Optional opt is v, [] if it is None
Item(k, opt) == IF opt = None THEN <<>> ELSE << <<k, opt[1]>> >>

CreatinineFull ==
    DictV(<< <<"value", FloatV("1.2")>>, <<"unit", StrV("mg/dL")>>,
             <<"egfr", IntV(55)>> >>)
CreatinineNoEgfr ==
    DictV(<< <<"value", FloatV("1.2")>>, <<"unit", StrV("mg/dL")>> >>)
CreatinineNoValue == DictV(<< <<"unit", StrV("mg/dL")>>, <<"egfr", IntV(55)>> >>)
CreatinineNoUnit == DictV(<< <<"value", FloatV("1.2")>>, <<"egfr", IntV(55)>> >>)
CreatinineOther ==
    DictV(<< <<"value", FloatV("0.9")>>, <<"unit", StrV("mg/dL")>>,
             <<"egfr", IntV(88)>> >>)
InrFull == DictV(<< <<"value", FloatV("2.1")>>, <<"date", StrV("2024-01-15")>> >>)
InrNoDate == DictV(<< <<"value", FloatV("2.1")>> >>)
PotassiumFull == DictV(<< <<"value", FloatV("4.2")>>, <<"unit", StrV("mEq/L")>> >>)
MagnesiumNoUnit == DictV(<< <<"value", FloatV("2.0")>> >>)

\* A pad_angioplasty entry with the given Optional creatinine record.
PadProcedure(creat) ==
    DictV(<< <<"patient",
               DictV(<< <<"name", StrV("John Doe")>>,
                        <<"labs", DictV(Item("creatinine", creat))>>,
                        <<"allergies",
                          ListV(<<StrV("Iodine contrast"), StrV("Latex")>>)>> >>)>>,
             <<"intraopData",
               DictV(<< <<"contrastUsed", IntV(45)>>,
                        <<"maxContrast", IntV(75)>> >>)>> >>)

\* An ep_ablation entry with the given Optional creatinine and inr records.
EpProcedure(creat, inr) ==
    DictV(<< <<"patient",
               DictV(<< <<"name", StrV("Jane Roe")>>,
                        <<"labs",
                          DictV(Item("creatinine", creat) \o Item("inr", inr)
                                \o << <<"potassium", PotassiumFull>>,
                                      <<"magnesium", MagnesiumNoUnit>> >>)>>,
                        <<"allergies", ListV(<<>>)>> >>)>> >>)

\* A procedure whose patient has neither labs nor allergies, and one without
\* a patient.
BareProcedure == DictV(<< <<"patient", DictV(<< <<"name", StrV("John Doe")>> >>)>> >>)
BlankProcedure == DictV(<< <<"name", StrV("EP Ablation")>> >>)

MockData(procedures) == DictV(<< <<"procedures", DictV(procedures)>> >>)

\* mock_data = {} (app.py:135: the file could not be loaded)
EmptyData == EmptyDict
\* mock_data = None (app.py:75: load_mock_data has not run)
UnloadedData == NoneV
NoProceduresData == DictV(<< <<"orSchedule", EmptyDict>> >>)
FullData ==
    MockData(<< <<"pad_angioplasty", PadProcedure(Some(CreatinineFull))>>,
                <<"ep_ablation", EpProcedure(None, Some(InrFull))>> >>)
NoEgfrData ==
    MockData(<< <<"pad_angioplasty", PadProcedure(Some(CreatinineNoEgfr))>>,
                <<"ep_ablation", EpProcedure(None, None)>> >>)
NoValueData ==
    MockData(<< <<"pad_angioplasty", PadProcedure(Some(CreatinineNoValue))>>,
                <<"ep_ablation", EpProcedure(None, Some(InrFull))>> >>)
NoUnitData ==
    MockData(<< <<"pad_angioplasty", PadProcedure(Some(CreatinineNoUnit))>>,
                <<"ep_ablation", EpProcedure(Some(CreatinineOther), Some(InrFull))>> >>)
NoDateData ==
    MockData(<< <<"pad_angioplasty", PadProcedure(None)>>,
                <<"ep_ablation", EpProcedure(Some(CreatinineOther), Some(InrNoDate))>> >>)
EpFirstData ==
    MockData(<< <<"ep_ablation", EpProcedure(Some(CreatinineOther), Some(InrFull))>>,
                <<"pad_angioplasty", PadProcedure(Some(CreatinineFull))>> >>)
BareData ==
    MockData(<< <<"pad_angioplasty", BareProcedure>>,
                <<"ep_ablation", BlankProcedure>> >>)
EpOnlyData == MockData(<< <<"ep_ablation", EpProcedure(None, Some(InrFull))>> >>)

Datasets ==
    {EmptyData, UnloadedData, NoProceduresData, FullData, NoEgfrData, NoValueData, NoUnitData,
     NoDateData, EpFirstData, BareData, EpOnlyData}

(***************************************************************************)
(* Queries put to the rule-based responder.                                *)
(***************************************************************************)
VtkQueryPhrases == {"vtk", "3D", "open", "zoom", "rotate", "close", "panel"}

DicomQueryPhrases == {"scan", "image", "ct", "next", "prev", "series", "hide"}

PanelQueryPhrases ==
    {"close", "Open panel", "patient", "vitals", "image", "voice", "creatinine"}

DataQueryPhrases ==
    {"creatinine", "contrast", "allergies", "INR", "potassium", "what is"}

\* Queries with the keywords the phrase groups leave out.
FurtherQueries ==
    {"load cpo", "show 3d", "reset 3d", "open dicom", "load mri image",
     "previous xray image", "x-ray image series", "medical image",
     "hide monitoring", "close vtk", "close dicom", "hide command",
     "open monitoring panel", "open 3d panel", "open dicom panel",
     "open command panel", "anticoag status", "electrolyte levels",
     "what is the creatinine", "What is the patient's creatinine level?"}

ControlQueries ==
    UNION {TranscriptsOver(g) :
             g \in {VtkQueryPhrases, DicomQueryPhrases, PanelQueryPhrases}}
    \cup FurtherQueries

DataQueries == TranscriptsOver(DataQueryPhrases) \cup FurtherQueries

\* The (query, mock_data) pairs the responder is studied on.
ResponderCases ==
    (ControlQueries \X {FullData, EmptyData}) \cup (DataQueries \X Datasets)

\* The (transcript, procedure_type) pairs parse_command is studied on: the
\* procedure type is only read by the start-transcription rule.
ParserRequests ==
    (ParserTranscripts \X {"pad_angioplasty"})
    \cup (TranscriptsOver(ClassifyPhrases) \X ProcedureTypes)
    \cup (LifecycleTranscripts \X ProcedureTypes)

\* Requests to /ask: the transcript may be missing or empty and the procedure
\* type unknown.
AskTranscripts ==
    {None, Some(""),
     Some("What is the patient's creatinine level?"),
     Some("Any allergies?"),
     Some("Is contrast contraindicated?"),
     Some("What is the INR?"),
     Some("show labs on the left"),
     Some("Show Labs and Vitals"),
     Some("close 3d"),
     Some("open vtk file"),
     Some("emergency: show vitals"),
     Some("hello")}

AskProcedureTypes == ProcedureTypes \cup {"cardiac_surgery"}

AskDatasets == {FullData, EmptyData, EpOnlyData}

\* What gemini_model.generate_content(prompt).text may give.
GenerateOutcomes ==
    {Ret("  Creatinine is 1.2 mg/dL, eGFR 55.\n"),
     Ret("CRITICAL: contrast limit reached."),
     Ret("No known allergies. Call the emergency team if symptoms occur."),
     Raise("ResourceExhausted: 429 quota exceeded")}

\* What the synthesis call may give: the temporary file it wrote, or an error.
SynthesisOutcomes ==
    {Ret("/tmp/tmpk3v9x2qa.mp3"), Raise("APIConnectionError: Connection error.")}

\* Requests of the service's voice operations.
ServiceRequests ==
    {<<"start transcription", "pad_angioplasty">>,
     <<"close 3d", "ep_ablation">>,
     <<"What is the patient's creatinine level?", "pad_angioplasty">>}

(***************************************************************************)
(* Transcription sessions (app.py:617-646, 679, 1030-1088, 1166-1209).     *)
(* sessions_file is data/transcriptions/sessions.json (None while it does  *)
(* not exist) and session_files maps the ids that have a                   *)
(* data/transcriptions/<id>.json to its content.  The clock is not         *)
(* modelled: every reading of it is Now.                                   *)
(***************************************************************************)
Now == "2024-01-15T10:30:00"

\* f"{n:03d}"
Pad3(n) ==
    LET digits == NatToStr(n)
    IN  Join("", [i \in 1..(3 - Len(digits)) |-> "0"]) \o digits

\* f"session_{n:03d}"
SessionId(n) == "session_" \o Pad3(n)

\* The session ids a request may name: those that can exist and one that
\* never does.
SessionIds == {SessionId(n) : n \in 1..(MaxStarts + 1)}

\* Mutant: the index file is never read back.
load_sessions_index_fresh == [sessions |-> <<>>, last_session_id |-> 0]

\* app.py:617-623
load_sessions_index ==
    IF sessions_file # None THEN sessions_file[1]
    ELSE [sessions |-> <<>>, last_session_id |-> 0]

\* app.py:632-638
load_transcription_session(session_id) ==
    IF session_id \in DOMAIN session_files
    THEN Some(session_files[session_id])
    ELSE None

\* app.py:1048
patient_context_of(proc) ==
    IF Truthy(mock_data)
    THEN Some(GetOr(GetOr(mock_data, "procedures", EmptyDict), proc, EmptyDict))
    ELSE None

(***************************************************************************)
(* POST /transcription/segment (app.py:1090-1164).  The handler loads the  *)
(* session file, suspends at "await audio.read()" (app.py:1108), and       *)
(* afterwards appends to the copy it loaded and writes that copy back.     *)
(* Other handlers run while it is suspended.                               *)
(***************************************************************************)
SegmentRequestIds == 1..MaxSegmentRequests

\* A call that has not been made, one suspended at the await with the data
\* it loaded, and one that has returned.  after_stop is a history field the
\* code does not have: the sessions index already marked the session
\* "completed" when the call arrived.
NotRequested ==
    [pc |-> "idle", session_id |-> "", timestamp |-> None,
     transcription_data_dict |-> None, after_stop |-> FALSE]
Suspended(session_id, timestamp, transcription_data_dict, after_stop) ==
    [pc |-> "reading", session_id |-> session_id, timestamp |-> timestamp,
     transcription_data_dict |-> Some(transcription_data_dict),
     after_stop |-> after_stop]
Returned(session_id, added) ==
    [pc |-> IF added THEN "added" ELSE "failed", session_id |-> session_id,
     timestamp |-> None, transcription_data_dict |-> None,
     after_stop |-> FALSE]

NoSegmentRequests == [r \in SegmentRequestIds |-> NotRequested]

\* The timestamp parameter of a segment request.
SegmentTimestamps == {None, Some("00:01:05")}

\* What the speech-to-text call of a segment may give.
SegmentOutcomes ==
    {Ret("stent deployed "), Raise("APIConnectionError: Connection error.")}

\* datetime.now().strftime("%H:%M:%S")
NowTime == SubSeq(Now, 12, 19)

\* TranscriptionSegment(timestamp=..., text=...) (app.py:107-109)
TranscriptionSegment(timestamp, text) == [timestamp |-> timestamp, text |-> text]

\* app.py:1110-1132: the text of the segment.  Only the cloud API is called;
\* with a local model the text stays empty.
transcript_text_of(transcribed) ==
    IF whisper_model = "openai_api" /\ openai_client
    THEN IF transcribed.raised THEN "Audio segment transcribed"
         ELSE Strip(transcribed.value)
    ELSE ""

\* Mutant: the texts are separated by a space.
with_segment_spaced(transcription_data_dict, timestamp, transcript_text) ==
    [transcription_data_dict EXCEPT
        !.transcript_segments =
            Append(@, TranscriptionSegment(
                          IF timestamp = None THEN NowTime ELSE timestamp[1],
                          transcript_text)),
        !.full_transcript = Strip(@ \o " " \o transcript_text)]

\* app.py:1134-1151: the loaded data with the segment appended, which
\* save_transcription_session writes.  The strip() applies to the formatted
\* string, so it removes the separating space.
with_segment(transcription_data_dict, timestamp, transcript_text) ==
    [transcription_data_dict EXCEPT
        !.transcript_segments =
            Append(@, TranscriptionSegment(
                          IF timestamp = None THEN NowTime ELSE timestamp[1],
                          transcript_text)),
        !.full_transcript = @ \o Strip(" " \o transcript_text)]

(***************************************************************************)
(* Operations.                                                             *)
(***************************************************************************)
\* The record of the first call of parse_command: its input, its result, and
\* whether another operation ("other") and then a second call with the same
\* input ("again") have followed it.
Recorded(first, t, proc, result) ==
    IF first = None
    THEN Some([transcript |-> t, procedure_type |-> proc, result |-> result,
               stage |-> "first"])
    ELSE IF first[1].transcript = t /\ first[1].procedure_type = proc
            /\ first[1].stage = "other"
    THEN Some([first[1] EXCEPT !.stage = "again"])
    ELSE first

\* The record after an operation other than parse_command.
Interleaved(first) ==
    IF first # None /\ first[1].stage = "first"
    THEN Some([first[1] EXCEPT !.stage = "other"])
    ELSE first

\* A call parse_command(transcript, procedure_type) (app.py:309).
ParseCommand ==
    /\ transcript # None
    /\ parsed' = Some(parse_command(transcript[1], procedure_type))
    /\ first_parsed' = Recorded(first_parsed, transcript[1], procedure_type,
                                parsed'[1])
    /\ UNCHANGED <<request, backends, segment_requests, llm_answer, rule_answer, response,
                   llm_outcome, tts_outcome, stt_outcome, storage>>

\* A call generate_rule_based_response(transcript) (app.py:519).
RuleBasedResponse ==
    /\ transcript # None
    /\ rule_answer' = Some(generate_rule_based_response(transcript[1]))
    /\ first_parsed' = Interleaved(first_parsed)
    /\ UNCHANGED <<request, backends, segment_requests, llm_answer, parsed, response,
                   llm_outcome, tts_outcome, stt_outcome, storage>>

\* Mutant: /ask carries out a start_transcription command it has parsed and
\* makes a session the active one.
AskActingOnCommands ==
    \E generated \in IF gemini_model THEN GenerateOutcomes ELSE {NotCalled},
       synthesized \in IF openai_client THEN SynthesisOutcomes ELSE {NotCalled} :
        /\ response' = Some(process_voice_command(transcript, procedure_type,
                                                  generated, synthesized))
        /\ llm_outcome' = IF ~gemini_model THEN "absent"
                          ELSE IF generated.raised THEN "raised"
                          ELSE "answered"
        /\ tts_outcome' = IF ~openai_client THEN "absent"
                          ELSE IF synthesized.raised THEN "raised"
                          ELSE "synthesized"
        /\ first_parsed' = Interleaved(first_parsed)
        /\ active_transcription_session' =
               IF transcript # None
                  /\ Contains(Lower(transcript[1]), "start transcription")
               THEN Some(SessionId(1))
               ELSE active_transcription_session
        /\ UNCHANGED <<stt_outcome, request, backends, segment_requests,
                       llm_answer, parsed, rule_answer, sessions_file,
                       session_files, letters>>

\* POST /ask with the current request (app.py:787-839).  The backends that
\* are initialised are called once each, with any of their outcomes.
Ask ==
    \E generated \in IF gemini_model THEN GenerateOutcomes ELSE {NotCalled},
       synthesized \in IF openai_client THEN SynthesisOutcomes ELSE {NotCalled} :
        /\ response' = Some(process_voice_command(transcript, procedure_type,
                                                  generated, synthesized))
        /\ llm_outcome' = IF ~gemini_model THEN "absent"
                          ELSE IF generated.raised THEN "raised"
                          ELSE "answered"
        /\ tts_outcome' = IF ~openai_client THEN "absent"
                          ELSE IF synthesized.raised THEN "raised"
                          ELSE "synthesized"
        /\ first_parsed' = Interleaved(first_parsed)
        /\ UNCHANGED <<stt_outcome, request, backends, segment_requests, llm_answer, parsed,
                       rule_answer, storage>>

\* A call get_llm_response(transcript) (app.py:500), the transcript taken as
\* the prompt, with any outcome of the backend if it is initialised.
LlmResponse ==
    \E generated \in IF gemini_model THEN GenerateOutcomes ELSE {NotCalled} :
        /\ transcript # None
        /\ llm_answer' = Some(get_llm_response(transcript[1], generated))
        /\ llm_outcome' = IF ~gemini_model THEN "absent"
                          ELSE IF generated.raised THEN "raised"
                          ELSE "answered"
        /\ first_parsed' = Interleaved(first_parsed)
        /\ UNCHANGED <<tts_outcome, stt_outcome, request, backends, segment_requests, parsed,
                       rule_answer, response, storage>>

\* POST /transcribe (app.py:695-785) with any outcome of the calls it makes.
Transcribe ==
    \E read \in ReadOutcomes, transcribed \in TranscribeOutcomes :
        /\ response' = Some(transcribe_audio(read, transcribed))
        /\ stt_outcome' = stt_outcome_of(read, transcribed)
        /\ first_parsed' = Interleaved(first_parsed)
        /\ UNCHANGED <<request, backends, segment_requests, parsed, rule_answer, llm_answer,
                       llm_outcome, tts_outcome, storage>>

\* The next request arrives; the outcomes kept are those of the current
\* request.
Receive ==
    \E r \in ServiceRequests :
        /\ <<transcript, procedure_type>> # <<Some(r[1]), r[2]>>
        /\ transcript' = Some(r[1])
        /\ procedure_type' = r[2]
        /\ parsed' = None
        /\ rule_answer' = None
        /\ llm_answer' = None
        /\ response' = None
        /\ llm_outcome' = "none"
        /\ tts_outcome' = "none"
        /\ stt_outcome' = "none"
        /\ first_parsed' = Interleaved(first_parsed)
        /\ UNCHANGED <<backends, segment_requests, storage>>

\* POST /transcription/start (app.py:1030-1088), while fewer than `limit`
\* sessions have been started.  The handler has no await: it runs as one
\* step.
start_transcription(limit) ==
    \E proc \in ProcedureTypes :
        LET sessions_data == load_sessions_index
            session_id == SessionId(sessions_data.last_session_id + 1)
        IN  /\ sessions_data.last_session_id < limit
            /\ sessions_file' =
                   Some([sessions |->
                             Append(sessions_data.sessions,
                                    [session_id |-> session_id,
                                     start_time |-> Now,
                                     procedure_type |-> proc,
                                     status |-> "active"]),
                         last_session_id |-> sessions_data.last_session_id + 1])
            /\ session_files' =
                   (session_id :> [session_id |-> session_id,
                                   transcript_segments |-> <<>>,
                                   full_transcript |-> "",
                                   procedure_context |-> patient_context_of(proc)])
                   @@ session_files
            /\ active_transcription_session' = Some(session_id)
            /\ response' = Some(Ok("/transcription/start",
                                   [session_id |-> session_id,
                                    status |-> "active",
                                    start_time |-> Now,
                                    message |-> "Transcription session started successfully"]))
            /\ first_parsed' = Interleaved(first_parsed)
            /\ UNCHANGED <<request, backends, segment_requests, llm_answer, parsed, rule_answer,
                           llm_outcome, tts_outcome, stt_outcome, letters>>

StartTranscription == start_transcription(MaxSessions)

StartSession == start_transcription(MaxStarts)

\* Mutant: the pointer is kept when the active session is stopped.
active_session_after_stop_kept(session_id) == active_transcription_session

\* app.py:1189-1191
active_session_after_stop(session_id) ==
    IF active_transcription_session = Some(session_id) THEN None
    ELSE active_transcription_session

\* POST /transcription/stop (app.py:1166-1209).  The HTTPException(404) of an
\* unknown id is raised inside the try block, so the handler's own except
\* clause turns it into a 500.
stop_transcription(session_id) ==
    LET sessions_data == load_sessions_index
        found == {i \in 1..Len(sessions_data.sessions) :
                      sessions_data.sessions[i].session_id = session_id}
        transcription_data == load_transcription_session(session_id)
    IN  /\ first_parsed' = Interleaved(first_parsed)
        /\ UNCHANGED <<request, backends, segment_requests, llm_answer, parsed, rule_answer,
                       llm_outcome, tts_outcome, stt_outcome,
                       session_files, letters>>
        /\ IF found = {}
           THEN /\ response' = Some(HttpError("/transcription/stop", 500,
                                              "Failed to stop transcription: 404: Session not found"))
                /\ UNCHANGED <<sessions_file,
                               active_transcription_session>>
           ELSE /\ sessions_file' =
                       Some([sessions_data EXCEPT
                                 !.sessions[Least(found)] =
                                     [status |-> "completed", end_time |-> Now]
                                     @@ @])
                /\ active_transcription_session' =
                       active_session_after_stop(session_id)
                /\ response' =
                       Some(Ok("/transcription/stop",
                               [session_id |-> session_id,
                                status |-> "completed",
                                total_segments |->
                                    IF transcription_data # None
                                    THEN Len(transcription_data[1].transcript_segments)
                                    ELSE 0,
                                full_transcript |->
                                    IF transcription_data # None
                                    THEN transcription_data[1].full_transcript
                                    ELSE "",
                                message |-> "Transcription session stopped successfully"]))

StopTranscription == \E session_id \in SessionIds : stop_transcription(session_id)

(***************************************************************************)
(* POST /generate-letter (app.py:1234-1340).  letters_file is               *)
(* data/letters/letters.json (None while it does not exist) and             *)
(* letter_files maps the ids that have a data/letters/<id>.json to its      *)
(* contents.                                                                *)
(***************************************************************************)
\* app.py:648-654
load_letters_index ==
    IF letters_file # None THEN letters_file[1]
    ELSE [letters |-> <<>>, last_letter_id |-> 0]

\* f"letter_{n:03d}"
LetterId(n) == "letter_" \o Pad3(n)

\* s.replace(old, new) for a one-character old
Replace(s, old, new) ==
    Join("", [i \in 1..Len(s) |-> IF CharAt(s, i) = old THEN new ELSE CharAt(s, i)])

LowerChars == {CharAt(LowerCase, i) : i \in 1..26}

UpperOf ==
    [c \in LowerChars |->
        CharAt(UpperCase, CHOOSE i \in 1..26 : CharAt(LowerCase, i) = c)]

\* s.title(): a letter is upper-cased after a non-letter and lower-cased
\* after a letter
Title(s) ==
    LET Cased(c) == c \in UpperChars \cup LowerChars
        TitleChar(i) ==
            LET c == CharAt(s, i)
                first == i = 1 \/ ~Cased(CharAt(s, i - 1))
            IN  IF first /\ c \in LowerChars THEN UpperOf[c]
                ELSE IF ~first /\ c \in UpperChars THEN LowerOf[c]
                ELSE c
    IN  Join("", [i \in 1..Len(s) |-> TitleChar(i)])

\* datetime.now().strftime('%B %d, %Y')
NowDate == "January 15, 2024"

\* The additional_notes of a letter request.
AdditionalNotes == {None, Some("Follow up in two weeks.")}

\* What the chat completion call may give.
LetterOutcomes ==
    {Ret("Dear Colleague, the procedure was uneventful."),
     Raise("RateLimitError: 429 quota exceeded")}

\* app.py:1283-1306: the letter written when the completion call fails
fallback_letter(procedure_type_, full_transcript, additional_notes) ==
    "\nMEDICAL LETTER\n\nDate: " \o NowDate
    \o "\n\nRe: " \o Title(Replace(procedure_type_, "_", " ")) \o " Procedure"
    \o "\n\nDear Colleague,\n\nI am writing to provide you with a summary of the recent "
    \o Replace(procedure_type_, "_", " ") \o " procedure."
    \o "\n\nProcedure Summary:\n" \o full_transcript
    \o "\n\nThe procedure was completed successfully. Please find the attached transcription for detailed information.\n\n"
    \o (IF additional_notes # None /\ additional_notes[1] # ""
        THEN additional_notes[1] ELSE "")
    \o "\n\nPlease feel free to contact me if you require any additional information.\n\nSincerely,\n[Attending Physician]\n"

\* app.py:1267-1306
letter_content_of(completed, procedure_type_, full_transcript, additional_notes) ==
    IF completed.raised
    THEN fallback_letter(procedure_type_, full_transcript, additional_notes)
    ELSE completed.value

\* GET /transcription/{session_id} (app.py:1221-1231).  The HTTPException
\* (404) is raised inside the try block, whose except clause answers 500.
get_transcription_session(session_id) ==
    LET transcription_data == load_transcription_session(session_id)
    IN  /\ response' =
               IF transcription_data = None
               THEN Some(HttpError("/transcription/{session_id}", 500,
                                   "Failed to load session"))
               ELSE Some(Ok("/transcription/{session_id}",
                            transcription_data[1]))
        /\ first_parsed' = Interleaved(first_parsed)
        /\ UNCHANGED <<request, backends, segment_requests, llm_answer,
                       parsed, rule_answer, llm_outcome, tts_outcome,
                       stt_outcome, storage>>

GetTranscriptionSession ==
    \E session_id \in SessionIds : get_transcription_session(session_id)

\* The sessions index marks the session "completed".
Completed(session_id) ==
    \E i \in 1..Len(load_sessions_index.sessions) :
        /\ load_sessions_index.sessions[i].session_id = session_id
        /\ load_sessions_index.sessions[i].status = "completed"

\* add_transcription_segment up to its await (app.py:1097-1108).  The
\* HTTPExceptions are raised inside the try block and leave as a 500.  The
\* calls are numbered in the order they arrive.
add_transcription_segment(r, session_id, timestamp) ==
    LET transcription_data_dict == load_transcription_session(session_id)
    IN  /\ segment_requests[r].pc = "idle"
        /\ \A q \in 1..(r - 1) : segment_requests[q].pc # "idle"
        /\ first_parsed' = Interleaved(first_parsed)
        /\ UNCHANGED <<request, backends, llm_answer, parsed, rule_answer,
                       llm_outcome, tts_outcome, stt_outcome, storage>>
        /\ IF transcription_data_dict = None
           THEN /\ segment_requests' =
                       [segment_requests EXCEPT
                           ![r] = Returned(session_id, FALSE)]
                /\ response' =
                       Some(HttpError("/transcription/segment", 500,
                                      "Failed to add segment: 404: Transcription session not found"))
           ELSE IF whisper_model = "none"
           THEN /\ segment_requests' =
                       [segment_requests EXCEPT
                           ![r] = Returned(session_id, FALSE)]
                /\ response' =
                       Some(HttpError("/transcription/segment", 500,
                                      "Failed to add segment: 503: Transcription service unavailable"))
           ELSE /\ segment_requests' =
                       [segment_requests EXCEPT
                           ![r] = Suspended(session_id, timestamp,
                                            transcription_data_dict[1],
                                            Completed(session_id))]
                /\ UNCHANGED response

AddSegmentBegin ==
    \E r \in SegmentRequestIds, session_id \in SessionIds,
       timestamp \in SegmentTimestamps :
        add_transcription_segment(r, session_id, timestamp)

\* add_transcription_segment from its await on (app.py:1108-1164)
AddSegmentFinish ==
    \E r \in SegmentRequestIds, read \in ReadOutcomes,
       transcribed \in SegmentOutcomes :
        LET call == segment_requests[r]
            transcript_text == transcript_text_of(transcribed)
        IN  /\ call.pc = "reading"
            /\ first_parsed' = Interleaved(first_parsed)
            /\ UNCHANGED <<request, backends, llm_answer, parsed, rule_answer,
                           llm_outcome, tts_outcome, stt_outcome,
                           sessions_file, active_transcription_session, letters>>
            /\ segment_requests' =
                   [segment_requests EXCEPT
                       ![r] = Returned(call.session_id, ~read.raised)]
            /\ IF read.raised
               THEN /\ response' =
                           Some(HttpError("/transcription/segment", 500,
                                          "Failed to add segment: "
                                          \o ExceptionStr(read.value)))
                    /\ UNCHANGED session_files
               ELSE /\ session_files' =
                           [session_files EXCEPT
                               ![call.session_id] =
                                   with_segment(call.transcription_data_dict[1],
                                                call.timestamp,
                                                transcript_text)]
                    /\ response' =
                           Some(Ok("/transcription/segment",
                                   [session_id |-> call.session_id,
                                    segment_added |-> TRUE,
                                    transcript |-> transcript_text,
                                    timestamp |->
                                        IF call.timestamp = None THEN NowTime
                                        ELSE call.timestamp[1]]))

\* POST /generate-letter (app.py:1234-1340).  The HTTPExceptions are raised
\* inside the try block and leave as a 500; a session stored without
\* procedure context makes .get fail on None (app.py:1247).
GenerateLetter ==
    \E session_id \in SessionIds, additional_notes \in AdditionalNotes,
       completed \in LetterOutcomes :
        LET transcription_data == load_transcription_session(session_id)
            letters_data == load_letters_index
            letter_id == LetterId(letters_data.last_letter_id + 1)
            Failed(detail) ==
                /\ response' = Some(HttpError("/generate-letter", 500,
                                              "Failed to generate letter: " \o detail))
                /\ UNCHANGED letters
        IN  /\ letters_data.last_letter_id < MaxLetters
            /\ first_parsed' = Interleaved(first_parsed)
            /\ UNCHANGED <<request, backends, segment_requests, llm_answer,
                           parsed, rule_answer, llm_outcome, tts_outcome,
                           stt_outcome, sessions_file, session_files,
                           active_transcription_session>>
            /\ IF transcription_data = None
               THEN Failed("404: Transcription session not found")
               ELSE IF ~openai_client
               THEN Failed("503: Letter generation service unavailable")
               ELSE IF transcription_data[1].procedure_context = None
               THEN Failed("'NoneType' object has no attribute 'get'")
               ELSE LET procedure_type_ ==
                            Format(GetOr(transcription_data[1].procedure_context[1],
                                         "procedure_type", StrV("general")))
                        content ==
                            letter_content_of(completed, procedure_type_,
                                              transcription_data[1].full_transcript,
                                              additional_notes)
                    IN  /\ letters_file' =
                               Some([letters |->
                                         Append(letters_data.letters,
                                                [letter_id |-> letter_id,
                                                 session_id |-> session_id,
                                                 created_at |-> Now,
                                                 procedure_type |-> procedure_type_]),
                                     last_letter_id |->
                                         letters_data.last_letter_id + 1])
                        /\ letter_files' =
                               (letter_id :> [letter_id |-> letter_id,
                                              session_id |-> session_id,
                                              content |-> content,
                                              created_at |-> Now,
                                              procedure_type |-> procedure_type_])
                               @@ letter_files
                        /\ response' =
                               Some(Ok("/generate-letter",
                                       [letter_id |-> letter_id,
                                        session_id |-> session_id,
                                        content |-> content,
                                        created_at |-> Now,
                                        message |-> "Doctor's letter generated successfully"]))

InitParser ==
    /\ \E r \in ParserRequests :
           /\ transcript = Some(r[1])
           /\ procedure_type = r[2]
    /\ mock_data = FullData
    /\ gemini_model = FALSE
    /\ openai_client = FALSE
    /\ whisper_model = "none"
    /\ WHISPER_AVAILABLE = FALSE
    /\ parsed = None
    /\ first_parsed = None
    /\ rule_answer = None
    /\ llm_answer = None
    /\ response = None
    /\ llm_outcome = "none"
    /\ tts_outcome = "none"
    /\ stt_outcome = "none"
    /\ sessions_file = None
    /\ session_files = <<>>
    /\ active_transcription_session = None
    /\ segment_requests = NoSegmentRequests
    /\ letters_file = None
    /\ letter_files = <<>>

NextParser == ParseCommand

SpecParser == InitParser /\ [][NextParser]_vars

InitResponder ==
    /\ \E c \in ResponderCases :
           /\ transcript = Some(c[1])
           /\ mock_data = c[2]
    /\ procedure_type = "pad_angioplasty"
    /\ gemini_model = FALSE
    /\ openai_client = FALSE
    /\ whisper_model = "none"
    /\ WHISPER_AVAILABLE = FALSE
    /\ parsed = None
    /\ first_parsed = None
    /\ rule_answer = None
    /\ llm_answer = None
    /\ response = None
    /\ llm_outcome = "none"
    /\ tts_outcome = "none"
    /\ stt_outcome = "none"
    /\ sessions_file = None
    /\ session_files = <<>>
    /\ active_transcription_session = None
    /\ segment_requests = NoSegmentRequests
    /\ letters_file = None
    /\ letter_files = <<>>

NextResponder == RuleBasedResponse

SpecResponder == InitResponder /\ [][NextResponder]_vars

InitAsk ==
    /\ transcript \in AskTranscripts
    /\ procedure_type \in AskProcedureTypes
    /\ mock_data \in AskDatasets
    /\ gemini_model \in BOOLEAN
    /\ openai_client \in BOOLEAN
    /\ whisper_model = "none"
    /\ WHISPER_AVAILABLE = FALSE
    /\ parsed = None
    /\ first_parsed = None
    /\ rule_answer = None
    /\ llm_answer = None
    /\ response = None
    /\ llm_outcome = "none"
    /\ tts_outcome = "none"
    /\ stt_outcome = "none"
    /\ sessions_file = None
    /\ session_files = <<>>
    /\ active_transcription_session = None
    /\ segment_requests = NoSegmentRequests
    /\ letters_file = None
    /\ letter_files = <<>>

NextAsk == Ask

SpecAsk == InitAsk /\ [][NextAsk]_vars

\* get_llm_response called directly and through /ask, on prompts with and
\* without the system prompt around the query.
LlmTranscripts ==
    {"What is the patient's creatinine level?", "open vtk file", "What is the INR?",
     "hello"}

LlmDatasets == {FullData, EmptyData, NoValueData, NoDateData}

InitLlm ==
    /\ transcript \in {Some(t) : t \in LlmTranscripts}
    /\ procedure_type = "pad_angioplasty"
    /\ mock_data \in LlmDatasets
    /\ gemini_model \in BOOLEAN
    /\ openai_client = FALSE
    /\ whisper_model = "none"
    /\ WHISPER_AVAILABLE = FALSE
    /\ parsed = None
    /\ first_parsed = None
    /\ rule_answer = None
    /\ llm_answer = None
    /\ response = None
    /\ llm_outcome = "none"
    /\ tts_outcome = "none"
    /\ stt_outcome = "none"
    /\ sessions_file = None
    /\ session_files = <<>>
    /\ active_transcription_session = None
    /\ segment_requests = NoSegmentRequests
    /\ letters_file = None
    /\ letter_files = <<>>

NextLlm == LlmResponse \/ Ask

SpecLlm == InitLlm /\ [][NextLlm]_vars

\* The speech-to-text configurations initialize_whisper and initialize_tts
\* can leave (app.py:138-157, 191-201): a local model needs the package.
InitTranscribe ==
    /\ transcript = None
    /\ procedure_type \in AskProcedureTypes
    /\ mock_data \in {FullData, EmptyData}
    /\ gemini_model = FALSE
    /\ openai_client \in BOOLEAN
    /\ whisper_model \in {"none", "openai_api", "local"}
    /\ WHISPER_AVAILABLE \in BOOLEAN
    /\ whisper_model = "local" => WHISPER_AVAILABLE
    /\ parsed = None
    /\ first_parsed = None
    /\ rule_answer = None
    /\ llm_answer = None
    /\ response = None
    /\ llm_outcome = "none"
    /\ tts_outcome = "none"
    /\ stt_outcome = "none"
    /\ sessions_file = None
    /\ session_files = <<>>
    /\ active_transcription_session = None
    /\ segment_requests = NoSegmentRequests
    /\ letters_file = None
    /\ letter_files = <<>>

NextTranscribe == Transcribe

SpecTranscribe == InitTranscribe /\ [][NextTranscribe]_vars

\* Segments added to stored sessions: a speech-to-text backend is configured
\* or not, and no session is stored yet.
InitSegments ==
    /\ transcript = None
    /\ procedure_type = "pad_angioplasty"
    /\ mock_data = FullData
    /\ gemini_model = FALSE
    /\ \E c \in {<<"openai_api", TRUE>>, <<"local", FALSE>>, <<"none", FALSE>>} :
           /\ whisper_model = c[1]
           /\ openai_client = c[2]
    /\ WHISPER_AVAILABLE = (whisper_model = "local")
    /\ parsed = None
    /\ first_parsed = None
    /\ rule_answer = None
    /\ llm_answer = None
    /\ response = None
    /\ llm_outcome = "none"
    /\ tts_outcome = "none"
    /\ stt_outcome = "none"
    /\ sessions_file = None
    /\ session_files = <<>>
    /\ active_transcription_session = None
    /\ segment_requests = NoSegmentRequests
    /\ letters_file = None
    /\ letter_files = <<>>

NextSegments ==
    \/ StartTranscription
    \/ AddSegmentBegin
    \/ AddSegmentFinish
    \/ StopTranscription
    \/ GetTranscriptionSession

SpecSegments == InitSegments /\ [][NextSegments]_vars

\* Segments added to sessions that are started and stopped, with the cloud
\* speech-to-text backend configured.
InitTranscript ==
    /\ transcript = None
    /\ procedure_type = "pad_angioplasty"
    /\ mock_data = FullData
    /\ gemini_model = FALSE
    /\ openai_client = TRUE
    /\ whisper_model = "openai_api"
    /\ WHISPER_AVAILABLE = FALSE
    /\ parsed = None
    /\ first_parsed = None
    /\ rule_answer = None
    /\ llm_answer = None
    /\ response = None
    /\ llm_outcome = "none"
    /\ tts_outcome = "none"
    /\ stt_outcome = "none"
    /\ sessions_file = None
    /\ session_files = <<>>
    /\ active_transcription_session = None
    /\ segment_requests = NoSegmentRequests
    /\ letters_file = None
    /\ letter_files = <<>>

NextTranscript ==
    \/ StartTranscription
    \/ AddSegmentBegin
    \/ AddSegmentFinish
    \/ StopTranscription

SpecTranscript == InitTranscript /\ [][NextTranscript]_vars

\* Sessions started and stopped: nothing is stored yet.
InitLifecycle ==
    /\ transcript = None
    /\ procedure_type = "pad_angioplasty"
    /\ mock_data \in {FullData, UnloadedData}
    /\ gemini_model = FALSE
    /\ openai_client = FALSE
    /\ whisper_model = "none"
    /\ WHISPER_AVAILABLE = FALSE
    /\ parsed = None
    /\ first_parsed = None
    /\ rule_answer = None
    /\ llm_answer = None
    /\ response = None
    /\ llm_outcome = "none"
    /\ tts_outcome = "none"
    /\ stt_outcome = "none"
    /\ sessions_file = None
    /\ session_files = <<>>
    /\ active_transcription_session = None
    /\ segment_requests = NoSegmentRequests
    /\ letters_file = None
    /\ letter_files = <<>>

NextLifecycle == StartSession \/ StopTranscription \/ GetTranscriptionSession

SpecLifecycle == InitLifecycle /\ [][NextLifecycle]_vars

\* The voice operations next to the operations that write the stores: the
\* letter service is configured and a request that asks for labs and for a
\* transcription has arrived.
InitFrame ==
    /\ transcript = Some("show labs and start transcription")
    /\ procedure_type = "pad_angioplasty"
    /\ mock_data = FullData
    /\ gemini_model = FALSE
    /\ openai_client = TRUE
    /\ whisper_model = "openai_api"
    /\ WHISPER_AVAILABLE = FALSE
    /\ parsed = None
    /\ first_parsed = None
    /\ rule_answer = None
    /\ llm_answer = None
    /\ response = None
    /\ llm_outcome = "none"
    /\ tts_outcome = "none"
    /\ stt_outcome = "none"
    /\ sessions_file = None
    /\ session_files = <<>>
    /\ active_transcription_session = None
    /\ segment_requests = NoSegmentRequests
    /\ letters_file = None
    /\ letter_files = <<>>

NextFrame ==
    \/ ParseCommand
    \/ RuleBasedResponse
    \/ Ask
    \/ StartTranscription
    \/ GenerateLetter

SpecFrame == InitFrame /\ [][NextFrame]_vars

\* The service after start-up (app.py:71-75, 127-135, 679): the dataset is
\* loaded, no session is stored, and a first request has arrived.
Init ==
    /\ \E r \in ServiceRequests :
           /\ transcript = Some(r[1])
           /\ procedure_type = r[2]
    /\ mock_data = FullData
    /\ gemini_model = FALSE
    /\ openai_client = FALSE
    /\ whisper_model = "none"
    /\ WHISPER_AVAILABLE = FALSE
    /\ parsed = None
    /\ first_parsed = None
    /\ rule_answer = None
    /\ llm_answer = None
    /\ response = None
    /\ llm_outcome = "none"
    /\ tts_outcome = "none"
    /\ stt_outcome = "none"
    /\ sessions_file = None
    /\ session_files = <<>>
    /\ active_transcription_session = None
    /\ segment_requests = NoSegmentRequests
    /\ letters_file = None
    /\ letter_files = <<>>

Next ==
    \/ ParseCommand
    \/ RuleBasedResponse
    \/ Ask
    \/ Receive
    \/ StartTranscription
    \/ StopTranscription

Spec == Init /\ [][Next]_vars

(***************************************************************************)
(* Properties of parse_command, stated on the outcome of the last call.    *)
(***************************************************************************)
IsShow(c) == c.action = "show"
IsZoom(c) == c.action = "zoom"
IsClose(c) == c.action = "close"
IsOpen(c) == c.action = "open"

TargetsOf(cs) == [i \in 1..Len(cs) |-> cs[i].target]

\* C1: command_type follows the priority alert > transcription > control >
\* query: "alert" whenever the lower-cased transcript contains "alert" or
\* "warning", whatever commands were produced; otherwise "transcription" if
\* transcription_commands is non-empty; otherwise "control" if
\* display_commands is non-empty; otherwise "query".
C1_CommandTypePriority ==
    parsed # None =>
        LET tl == Lower(transcript[1])
        IN  parsed[1].command_type =
                IF Contains(tl, "alert") \/ Contains(tl, "warning") THEN "alert"
                ELSE IF parsed[1].transcription_commands # <<>>
                THEN "transcription"
                ELSE IF parsed[1].display_commands # <<>> THEN "control"
                ELSE "query"

\* An alert transcript that also produced display and transcription commands.
C1_Witness ==
    /\ parsed # None
    /\ Contains(Lower(transcript[1]), "alert")
    /\ parsed[1].display_commands # <<>>
    /\ parsed[1].transcription_commands # <<>>
    /\ parsed[1].command_type = "alert"

\* The words that open a rule of parse_command.
TriggerKeywords ==
    {"start transcription", "stop transcription", "create doctor", "show doctor",
     "show", "display", "zoom", "reset", "next", "previous", "rotate", "close",
     "hide", "open", "alert", "warning"}

NoTrigger(tl) == \A k \in TriggerKeywords : ~Contains(tl, k)

\* C2: a transcript (the empty one included) that contains none of the
\* trigger keywords is parsed to command_type "query" with no display
\* command and no transcription command.
C2_NoTriggerIsQuery ==
    (parsed # None /\ NoTrigger(Lower(transcript[1]))) =>
        /\ parsed[1].command_type = "query"
        /\ parsed[1].display_commands = <<>>
        /\ parsed[1].transcription_commands = <<>>

\* A non-empty transcript without trigger keyword (it names rule targets) was
\* parsed.
C2_Witness ==
    /\ parsed # None
    /\ LET tl == Lower(transcript[1])
       IN  NoTrigger(tl) /\ Contains(tl, "3d") /\ Contains(tl, "vitals")
    /\ parsed[1].command_type = "query"

\* The empty transcript was parsed.
C2_WitnessEmpty ==
    /\ parsed # None
    /\ transcript = Some("")
    /\ parsed[1].command_type = "query"

ShowTargetsExpected(tl) ==
    When(Contains(tl, "lab"), "lab_results")
    \o When(Contains(tl, "imaging") \/ Contains(tl, "image"), "imaging")
    \o When(Contains(tl, "vital"), "vitals")
    \o When(Contains(tl, "vtk") \/ Contains(tl, "3d") \/ Contains(tl, "cpo"), "vtk")
    \o When(Contains(tl, "dicom") \/ Contains(tl, "scan")
                \/ (Contains(tl, "image") /\ Contains(tl, "medical")),
            "dicom")

\* C3: with "show" or "display" in the transcript the five show rules fire
\* independently: the commands with action "show" are exactly one per
\* matching rule, in the order lab_results, imaging, vitals, vtk, dicom; and
\* "show labs and vitals" yields exactly [show lab_results at center, show
\* vitals at right].
C3_ShowRulesIndependent ==
    parsed # None =>
        LET tl == Lower(transcript[1])
        IN  (Contains(tl, "show") \/ Contains(tl, "display")) =>
                /\ TargetsOf(SelectSeq(parsed[1].display_commands, IsShow))
                       = ShowTargetsExpected(tl)
                /\ transcript = Some("show labs and vitals") =>
                       parsed[1].display_commands =
                           <<[action |-> "show", target |-> "lab_results",
                              position |-> "center"],
                             [action |-> "show", target |-> "vitals",
                              position |-> "right"]>>

\* "show labs and vitals" was parsed and gave two show commands.
C3_Witness ==
    /\ parsed # None
    /\ transcript = Some("show labs and vitals")
    /\ Len(SelectSeq(parsed[1].display_commands, IsShow)) = 2

\* Three show rules fired on one transcript.
C3_WitnessThree ==
    /\ parsed # None
    /\ Len(SelectSeq(parsed[1].display_commands, IsShow)) >= 3

\* C4: with "zoom" and ("3d" or "model") in the transcript exactly one zoom
\* command on target "3d" is emitted, its zoom_level the first match of
\* "2x" -> 2.0, "3x" -> 3.0, "out" -> 1/1.5, else 1.5; "2x" with "out" is 2.0.
C4_ZoomLevelPriority ==
    parsed # None =>
        LET tl == Lower(transcript[1])
            zooms == SelectSeq(parsed[1].display_commands, IsZoom)
        IN  (Contains(tl, "zoom") /\ (Contains(tl, "3d") \/ Contains(tl, "model")))
            =>  /\ Len(zooms) = 1
                /\ zooms[1].target = "3d"
                /\ zooms[1].data.zoom_level =
                       IF Contains(tl, "2x") THEN <<2, 1>>
                       ELSE IF Contains(tl, "3x") THEN <<3, 1>>
                       ELSE IF Contains(tl, "out") THEN <<2, 3>>
                       ELSE <<3, 2>>

\* A zoom transcript with both "2x" and "out" was parsed to zoom_level 2.0.
C4_Witness ==
    /\ parsed # None
    /\ LET tl == Lower(transcript[1])
       IN  /\ Contains(tl, "zoom") /\ Contains(tl, "3d")
           /\ Contains(tl, "2x") /\ Contains(tl, "out")
    /\ \E i \in 1..Len(parsed[1].display_commands) :
           /\ parsed[1].display_commands[i].action = "zoom"
           /\ parsed[1].display_commands[i].data.zoom_level = <<2, 1>>

PanelTargetExpected(tl) ==
    IF Contains(tl, "patient") THEN <<"patient">>
    ELSE IF Contains(tl, "monitoring") \/ Contains(tl, "vitals")
    THEN <<"monitoring">>
    ELSE IF Contains(tl, "3d") \/ Contains(tl, "vtk") THEN <<"3d">>
    ELSE IF Contains(tl, "dicom") \/ Contains(tl, "image") THEN <<"dicom">>
    ELSE IF Contains(tl, "voice") \/ Contains(tl, "command") THEN <<"voice">>
    ELSE <<>>

\* C5: with "close" or "hide" in the transcript at most one command with
\* action "close" is emitted; its target is the first match of patient >
\* monitoring > 3d > dicom > voice, and none is emitted when no target
\* keyword occurs; "close patient and vitals" gives one close of "patient".
C5_CloseTargetExclusive ==
    parsed # None =>
        LET tl == Lower(transcript[1])
            closes == SelectSeq(parsed[1].display_commands, IsClose)
        IN  (Contains(tl, "close") \/ Contains(tl, "hide")) =>
                /\ Len(closes) <= 1
                /\ TargetsOf(closes) = PanelTargetExpected(tl)
                /\ transcript = Some("close patient and vitals") =>
                       parsed[1].display_commands =
                           <<[action |-> "close", target |-> "patient"]>>

\* "close patient and vitals" was parsed to a single close of "patient".
C5_Witness ==
    /\ parsed # None
    /\ transcript = Some("close patient and vitals")
    /\ TargetsOf(SelectSeq(parsed[1].display_commands, IsClose)) = <<"patient">>

\* C6 as claimed: with "open" and "panel" in the transcript exactly one
\* command with action "open" is emitted, its target resolved as for close.
C6_OpenExactlyOne ==
    parsed # None =>
        LET tl == Lower(transcript[1])
            opens == SelectSeq(parsed[1].display_commands, IsOpen)
        IN  (Contains(tl, "open") /\ Contains(tl, "panel")) =>
                /\ Len(opens) = 1
                /\ TargetsOf(opens) = PanelTargetExpected(tl)

\* C6 as amended: with "open" and "panel" in the transcript at most one
\* command with action "open" is emitted: exactly one, its target the first
\* match of patient > monitoring > 3d > dicom > voice, when a target keyword
\* occurs, and none when no target keyword occurs.
C6_OpenAtMostOne ==
    parsed # None =>
        LET tl == Lower(transcript[1])
            opens == SelectSeq(parsed[1].display_commands, IsOpen)
        IN  (Contains(tl, "open") /\ Contains(tl, "panel")) =>
                /\ Len(opens) <= 1
                /\ TargetsOf(opens) = PanelTargetExpected(tl)

\* An open-panel transcript naming two targets was parsed to the first one.
C6_Witness ==
    /\ parsed # None
    /\ LET tl == Lower(transcript[1])
       IN  /\ Contains(tl, "open") /\ Contains(tl, "panel")
           /\ Contains(tl, "patient") /\ Contains(tl, "monitoring")
    /\ TargetsOf(SelectSeq(parsed[1].display_commands, IsOpen)) = <<"patient">>

\* An open-panel transcript naming no target was parsed to no open command.
C6_WitnessNoTarget ==
    /\ parsed # None
    /\ LET tl == Lower(transcript[1])
       IN  /\ Contains(tl, "open") /\ Contains(tl, "panel")
           /\ PanelTargetExpected(tl) = <<>>
    /\ SelectSeq(parsed[1].display_commands, IsOpen) = <<>>

(***************************************************************************)
(* Properties of generate_rule_based_response, stated on the outcome of    *)
(* the last direct call.                                                   *)
(***************************************************************************)
\* C9: the responder never raises, whatever the query and the dataset
\* (entries absent or short of fields included): every call returns a
\* string.
C9_ResponderNeverRaises == rule_answer # None => ~rule_answer[1].raised

VtkAnswers ==
    {"Loading VTK file for 3D visualization. The model will appear in the 3D viewer panel.",
     "Zooming 3D model view. Use voice commands to control the visualization.",
     "Resetting 3D view orientation to default position.",
     "Rotating 3D model view. Use voice commands to control the orientation."}

DicomAnswers ==
    {"Loading DICOM medical images. The images will appear in the DICOM viewer panel. Use mouse wheel or voice commands to navigate through the series.",
     "Moving to next DICOM image in the series.",
     "Moving to previous DICOM image in the series.",
     "DICOM series contains multiple medical images. Use navigation commands to scroll through them."}

CloseAnswers ==
    {"Closing patient information panel.",
     "Closing procedural monitoring panel.",
     "Closing 3D visualization panel.",
     "Closing DICOM viewer panel.",
     "Closing voice command panel.",
     "Please specify which panel to close: patient, monitoring, 3D, DICOM, or voice."}

OpenAnswers ==
    {"Opening patient information panel.",
     "Opening procedural monitoring panel.",
     "Opening 3D visualization panel.",
     "Opening DICOM viewer panel.",
     "Opening voice command panel.",
     "Please specify which panel to open: patient, monitoring, 3D, DICOM, or voice."}

ControlAnswers == VtkAnswers \cup DicomAnswers \cup CloseAnswers \cup OpenAnswers

VtkTrigger(ql) == Contains(ql, "vtk") \/ Contains(ql, "3d") \/ Contains(ql, "cpo")

VtkSubKeyword(ql) ==
    \E k \in {"open", "load", "show", "zoom", "reset", "rotate"} : Contains(ql, k)

DicomTrigger(ql) ==
    \/ Contains(ql, "dicom")
    \/ Contains(ql, "scan")
    \/ /\ Contains(ql, "image")
       /\ \E k \in {"medical", "ct", "mri", "xray", "x-ray"} : Contains(ql, k)

DicomSubKeyword(ql) ==
    \E k \in {"open", "load", "show", "next", "previous", "prev", "series"} :
        Contains(ql, k)

CloseTrigger(ql) == Contains(ql, "close") \/ Contains(ql, "hide")

OpenTrigger(ql) == Contains(ql, "open") /\ Contains(ql, "panel")

DataTrigger(ql) ==
    \E k \in {"creatinine", "contrast", "allerg", "inr", "anticoag", "potassium",
              "electrolyte"} : Contains(ql, k)

\* The outcome is an answer of the given set.
Answers(outcome, texts) == ~outcome.raised /\ outcome.value \in texts

\* C10 as claimed: on a non-empty dataset the answer comes from the first
\* category, in the order VTK/3D, DICOM/imaging, close/hide, open+panel,
\* data lookups, default, whose trigger keywords occur in the query.
C10_FirstTriggeredCategory ==
    (rule_answer # None /\ Truthy(mock_data)) =>
        LET ql == Lower(transcript[1])
            a == rule_answer[1]
        IN  IF VtkTrigger(ql) THEN Answers(a, VtkAnswers)
            ELSE IF DicomTrigger(ql) THEN Answers(a, DicomAnswers)
            ELSE IF CloseTrigger(ql) THEN Answers(a, CloseAnswers)
            ELSE IF OpenTrigger(ql) THEN Answers(a, OpenAnswers)
            ELSE IF DataTrigger(ql)
            THEN ~Answers(a, ControlAnswers \cup {DefaultAnswer})
            ELSE Answers(a, {DefaultAnswer})

\* C10 as amended: on a non-empty dataset the answer comes from the first
\* category, in that order, that returns.  VTK/3D returns only when its
\* trigger occurs together with one of open, load, show, zoom, reset,
\* rotate, and DICOM/imaging only when its trigger occurs together with one
\* of open, load, show, next, previous, prev, series; otherwise they fall
\* through to the later categories.  Close/hide and open+panel return
\* whenever their trigger occurs.  Only when none of the four returns does
\* the outcome come from a data lookup or the default, and it is the default
\* when no data keyword occurs.
C10_FirstReturningCategory ==
    (rule_answer # None /\ Truthy(mock_data)) =>
        LET ql == Lower(transcript[1])
            a == rule_answer[1]
        IN  IF VtkTrigger(ql) /\ VtkSubKeyword(ql) THEN Answers(a, VtkAnswers)
            ELSE IF DicomTrigger(ql) /\ DicomSubKeyword(ql)
            THEN Answers(a, DicomAnswers)
            ELSE IF CloseTrigger(ql) THEN Answers(a, CloseAnswers)
            ELSE IF OpenTrigger(ql) THEN Answers(a, OpenAnswers)
            ELSE /\ ~Answers(a, ControlAnswers)
                 /\ ~DataTrigger(ql) => Answers(a, {DefaultAnswer})

\* A query with a VTK/3D trigger and none of its sub-keywords was answered by
\* the close/hide category.
C10_Witness ==
    /\ rule_answer # None
    /\ Truthy(mock_data)
    /\ LET ql == Lower(transcript[1])
       IN  VtkTrigger(ql) /\ ~VtkSubKeyword(ql) /\ CloseTrigger(ql)
    /\ Answers(rule_answer[1], CloseAnswers)

\* A creatinine query met a creatinine record without "value".
C9_RaisedOnShortRecord ==
    /\ rule_answer # None
    /\ rule_answer[1] = Raise("KeyError: 'value'")

C8_FallbackAnswersTranscript ==
    (/\ response # None
     /\ response[1].endpoint = "/ask"
     /\ llm_outcome \in {"absent", "raised"}
     /\ transcript # None)
    => /\ response[1].status = 200
       /\ Ret(response[1].body.response)
              = generate_rule_based_response(transcript[1])

\* The fallback answered a creatinine question with the VTK loading text.
C8_PromptAnswered ==
    /\ response # None
    /\ response[1].endpoint = "/ask"
    /\ response[1].status = 200
    /\ llm_outcome \in {"absent", "raised"}
    /\ transcript = Some("What is the patient's creatinine level?")
    /\ response[1].body.response
           = "Loading VTK file for 3D visualization. The model will appear in the 3D viewer panel."
    /\ generate_rule_based_response(transcript[1])
           = Ret("Creatinine is 1.2 mg/dL, eGFR 55. Consider contrast nephropathy risk.")

\* C11: on an empty or unloaded dataset generate_rule_based_response returns
\* "Medical data is not available at this time." for every query, whatever
\* keywords the query contains.
C11_EmptyDatasetUnavailable ==
    (rule_answer # None /\ ~Truthy(mock_data))
    => rule_answer[1] = Ret("Medical data is not available at this time.")

\* A query with the trigger and a sub-keyword of a control category was
\* answered on the empty dataset.
C11_Witness ==
    /\ rule_answer # None
    /\ mock_data = EmptyData
    /\ LET ql == Lower(transcript[1])
       IN  \/ VtkTrigger(ql) /\ VtkSubKeyword(ql)
           \/ CloseTrigger(ql)
    /\ rule_answer[1] = Ret("Medical data is not available at this time.")

\* A data query was answered on the dataset that was never loaded.
C11_WitnessUnloaded ==
    /\ rule_answer # None
    /\ mock_data = UnloadedData
    /\ DataTrigger(Lower(transcript[1]))
    /\ rule_answer[1] = Ret("Medical data is not available at this time.")

\* C12: a failure of the generative backend never propagates: whether the
\* handle is absent or its call raises, get_llm_response returns a text for
\* every prompt and /ask returns a VoiceResponse, not an error.
C12_BackendFailureNeverPropagates ==
    llm_outcome \in {"absent", "raised"} =>
        /\ llm_answer # None => ~llm_answer[1].raised
        /\ (response # None /\ response[1].endpoint = "/ask")
               => response[1].status = 200

\* With the backend absent, get_llm_response raised the KeyError of its
\* fallback on a creatinine prompt.
C12_FallbackRaised ==
    /\ llm_outcome = "absent"
    /\ llm_answer = Some(Raise("KeyError: 'value'"))
    /\ transcript = Some("What is the patient's creatinine level?")

\* C13: an /ask request whose transcript is missing or empty is not an
\* error: it yields a VoiceResponse with transcript "" and no display
\* commands.
C13_MissingTranscriptAccepted ==
    (/\ response # None
     /\ response[1].endpoint = "/ask"
     /\ transcript \in {None, Some("")})
    => /\ response[1].status = 200
       /\ response[1].body.transcript = ""
       /\ response[1].body.display_commands = <<>>

\* The request without transcript was answered with the 500 of the handler's
\* except clause.
C13_MissingTranscriptFailed ==
    /\ transcript = None
    /\ response
           = Some(HttpError("/ask", 500,
                            "Command processing failed: 'NoneType' object has no attribute 'lower'"))

\* The request with the empty transcript was answered.
C13_EmptyTranscriptAnswered ==
    /\ transcript = Some("")
    /\ response # None
    /\ response[1].status = 200
    /\ response[1].body.transcript = ""
    /\ response[1].body.display_commands = <<>>

\* C14: the alert_level of every /ask response is "critical" if the answer
\* text contains "critical" or "emergency" in any case, whatever the query;
\* otherwise "warning" if the query contains "allerg" or "contraindic";
\* otherwise "info".
C14_AlertLevel ==
    (response # None /\ response[1].endpoint = "/ask" /\ response[1].status = 200)
    => LET answer == Lower(response[1].body.response)
           query == Lower(transcript[1])
           level == response[1].body.alert_level
       IN  /\ level \in {"info", "warning", "critical"}
           /\ level = "critical"
                  <=> (Contains(answer, "critical") \/ Contains(answer, "emergency"))
           /\ level = "warning"
                  <=> /\ ~Contains(answer, "critical")
                      /\ ~Contains(answer, "emergency")
                      /\ Contains(query, "allerg") \/ Contains(query, "contraindic")

\* A query about allergies was answered with a text mentioning an emergency:
\* the level is critical, not warning.
C14_Witness ==
    /\ response # None
    /\ response[1].endpoint = "/ask"
    /\ response[1].status = 200
    /\ Contains(Lower(transcript[1]), "allerg")
    /\ Contains(response[1].body.response, "emergency")
    /\ response[1].body.alert_level = "critical"

\* An upper-case CRITICAL in the answer, and a warning for a query about a
\* contraindication.
C14_WitnessUpperCase ==
    /\ response # None
    /\ response[1].status = 200
    /\ Contains(response[1].body.response, "CRITICAL")
    /\ response[1].body.alert_level = "critical"

C14_WitnessWarning ==
    /\ response # None
    /\ response[1].status = 200
    /\ Contains(Lower(transcript[1]), "contraindic")
    /\ response[1].body.alert_level = "warning"

\* The answer texts /ask can carry for the current request, given how the
\* generative backend fared.
ExpectedAnswerTexts ==
    IF llm_outcome = "answered"
    THEN {Strip(g.value) : g \in {o \in GenerateOutcomes : ~o.raised}}
    ELSE {generate_rule_based_response(
              full_prompt_of(transcript, procedure_type)).value}

\* C15: speech synthesis is best-effort: when the synthesis client is absent
\* or its call raises, a request with a transcript is still answered with a
\* VoiceResponse whose audio_url is absent and whose transcript, response
\* text, display commands and alert level are those the request and the
\* answer text determine.
C15_SpeechBestEffort ==
    (/\ response # None
     /\ response[1].endpoint = "/ask"
     /\ tts_outcome \in {"absent", "raised"}
     /\ transcript # None)
    => /\ response[1].status = 200
       /\ LET body == response[1].body
              commands == parse_command(transcript[1], procedure_type).display_commands
              answer == Lower(body.response)
              query == Lower(transcript[1])
          IN  /\ body.audio_url = None
              /\ body.transcript = transcript[1]
              /\ body.response \in ExpectedAnswerTexts
              /\ Len(body.display_commands) = Len(commands)
              /\ \A i \in 1..Len(commands) :
                     /\ body.display_commands[i].action = commands[i].action
                     /\ body.display_commands[i].target = commands[i].target
              /\ body.alert_level =
                     IF Contains(answer, "critical") \/ Contains(answer, "emergency")
                     THEN "critical"
                     ELSE IF Contains(query, "allerg") \/ Contains(query, "contraindic")
                     THEN "warning"
                     ELSE "info"

\* The synthesis call raised and the request, which has display commands,
\* was answered without audio.
C15_Witness ==
    /\ response # None
    /\ response[1].endpoint = "/ask"
    /\ tts_outcome = "raised"
    /\ response[1].status = 200
    /\ response[1].body.audio_url = None
    /\ response[1].body.display_commands # <<>>

\* The synthesis call succeeded and the response carries the audio URL.
C15_WitnessAudio ==
    /\ response # None
    /\ tts_outcome = "synthesized"
    /\ response[1].status = 200
    /\ response[1].body.audio_url = Some("/audio/tmpk3v9x2qa.mp3")

\* C16: every failure of the transcription pipeline of /transcribe (no
\* speech-to-text backend, cloud API error, local model error, no method
\* available) is recovered: the endpoint answers with a VoiceResponse
\* carrying the fallback transcript and alert_level "warning", never with an
\* HTTP error, and no /transcribe response has a level above "warning".
C16_TranscribeRecovers ==
    (response # None /\ response[1].endpoint = "/transcribe")
    => /\ response[1].status = 200
       /\ response[1].body.alert_level \in {"info", "warning"}
       /\ stt_outcome # "transcribed"
              => /\ response[1].body.transcript
                        = "What is the patient's creatinine level?"
                 /\ response[1].body.response
                        = "Transcription service unavailable, using fallback"
                 /\ response[1].body.alert_level = "warning"

\* The cloud API raised and the fallback transcript was returned.
C16_Witness ==
    /\ response # None
    /\ response[1].endpoint = "/transcribe"
    /\ stt_outcome = "cloud_error"
    /\ response[1].status = 200
    /\ response[1].body.alert_level = "warning"

\* The other failures, and a transcription whose text mentions an emergency.
C16_WitnessNoBackend ==
    stt_outcome = "no_backend" /\ response = Some(FallbackTranscription)

C16_WitnessLocalError ==
    stt_outcome = "local_error" /\ response = Some(FallbackTranscription)

C16_WitnessNoMethod ==
    stt_outcome = "no_method" /\ response = Some(FallbackTranscription)

C16_WitnessReadFailed ==
    stt_outcome = "read_failed" /\ response = Some(FallbackTranscription)

C16_WitnessTranscribed ==
    /\ stt_outcome = "transcribed"
    /\ response # None
    /\ response[1].body.transcript = "CRITICAL emergency"
    /\ response[1].body.alert_level = "info"

\* C17: an /ask request whose procedure_type is not a known procedure does
\* not fail: the prompt is built with the system prompt of pad_angioplasty
\* (and no patient data), and a request with a transcript is answered with a
\* VoiceResponse, whose fallback answer is the one that prompt gives.
C17_UnknownProcedureDefaults ==
    (/\ response # None
     /\ response[1].endpoint = "/ask"
     /\ procedure_type \notin ProcedureTypes
     /\ transcript # None)
    => LET prompt == SYSTEM_PROMPT_PAD_ANGIOPLASTY
                     \o "\n\nPatient Data:\n\n\nQuery: " \o transcript[1]
                     \o "\n\nResponse:"
       IN  /\ response[1].status = 200
           /\ full_prompt_of(transcript, procedure_type) = prompt
           /\ llm_outcome # "answered"
                  => Ret(response[1].body.response)
                         = generate_rule_based_response(prompt)
           /\ response[1].body.visual_data = None

\* A request for an unknown procedure type, asking for labs, was answered by
\* the fallback on a loaded dataset.
C17_Witness ==
    /\ response # None
    /\ response[1].endpoint = "/ask"
    /\ procedure_type = "cardiac_surgery"
    /\ transcript = Some("show labs on the left")
    /\ Truthy(mock_data)
    /\ llm_outcome = "absent"
    /\ response[1].status = 200
    /\ response[1].body.display_commands # <<>>

\* The creatinine entries that have a value and a unit, in dataset order.
CompleteCreatinineEntries ==
    LET Complete(creat) == HasKey(creat, "value") /\ HasKey(creat, "unit")
    IN  SelectSeq(TruthyLabEntries("creatinine"), Complete)

\* The query asks for creatinine and triggers no earlier category.
CreatinineQuery(ql) ==
    /\ Contains(ql, "creatinine")
    /\ ~VtkTrigger(ql) /\ ~DicomTrigger(ql)
    /\ ~CloseTrigger(ql) /\ ~OpenTrigger(ql)

\* C18: for a query containing "creatinine" that matches no earlier category
\* and a dataset in which some procedure has a creatinine entry with value
\* and unit, the responder returns a string containing the value, the unit
\* and the eGFR ("not available" when missing) of the first such procedure
\* in dataset order.
C18_CreatinineOfFirstEntry ==
    (/\ rule_answer # None
     /\ Truthy(mock_data)
     /\ CreatinineQuery(Lower(transcript[1]))
     /\ CompleteCreatinineEntries # <<>>)
    => LET creat == CompleteCreatinineEntries[1]
       IN  /\ ~rule_answer[1].raised
           /\ Contains(rule_answer[1].value, Format(Index(creat, "value")))
           /\ Contains(rule_answer[1].value, Format(Index(creat, "unit")))
           /\ Contains(rule_answer[1].value,
                       Format(GetOr(creat, "egfr", StrV("not available"))))

\* The same statement holds on the datasets whose first creatinine entry has
\* a value and a unit.
C18_CreatinineOfFirstCompleteEntry ==
    (/\ rule_answer # None
     /\ Truthy(mock_data)
     /\ CreatinineQuery(Lower(transcript[1]))
     /\ CompleteCreatinineEntries # <<>>
     /\ TruthyLabEntries("creatinine")[1] = CompleteCreatinineEntries[1])
    => LET creat == CompleteCreatinineEntries[1]
       IN  rule_answer[1]
               = Ret("Creatinine is " \o Format(Index(creat, "value")) \o " "
                     \o Format(Index(creat, "unit")) \o ", eGFR "
                     \o Format(GetOr(creat, "egfr", StrV("not available")))
                     \o ". Consider contrast nephropathy risk.")

\* The example of the claim: value 1.2, unit mg/dL, egfr 55.
C18_WitnessExample ==
    /\ rule_answer # None
    /\ mock_data = FullData
    /\ transcript = Some("What is the patient's creatinine level?")
    /\ rule_answer[1] = Ret("Creatinine is 1.2 mg/dL, eGFR 55. Consider contrast nephropathy risk.")

\* A missing eGFR is rendered as "not available".
C18_WitnessNoEgfr ==
    /\ rule_answer # None
    /\ mock_data = NoEgfrData
    /\ CreatinineQuery(Lower(transcript[1]))
    /\ ~rule_answer[1].raised
    /\ Contains(rule_answer[1].value, "eGFR not available")

\* The first entry in dataset order is answered, not pad_angioplasty's.
C18_WitnessDatasetOrder ==
    /\ rule_answer # None
    /\ mock_data = EpFirstData
    /\ CreatinineQuery(Lower(transcript[1]))
    /\ ~rule_answer[1].raised
    /\ Contains(rule_answer[1].value, "0.9 mg/dL, eGFR 88")

\* An entry without unit that precedes a complete one makes the responder
\* raise.
C18_WitnessRaised ==
    /\ rule_answer # None
    /\ mock_data = NoUnitData
    /\ CreatinineQuery(Lower(transcript[1]))
    /\ CompleteCreatinineEntries # <<>>
    /\ rule_answer[1] = Raise("KeyError: 'unit'")

\* The add_transcription_segment calls for a session that returned
\* segment_added.
AddedSegments(session_id) ==
    {r \in SegmentRequestIds :
        /\ segment_requests[r].pc = "added"
        /\ segment_requests[r].session_id = session_id}

\* C19: no transcript segment is lost when segments are appended
\* concurrently: once the add_transcription_segment requests for a session
\* have all completed, the stored transcript_segments of that session has one
\* entry for every request that succeeded.
C19_NoSegmentLost ==
    \A session_id \in DOMAIN session_files :
        (\A r \in SegmentRequestIds :
             segment_requests[r].session_id = session_id
                 => segment_requests[r].pc # "reading")
        => Len(session_files[session_id].transcript_segments)
               = Cardinality(AddedSegments(session_id))

\* Two requests for one session have both returned segment_added and the
\* session file holds one segment.
C19_SegmentLost ==
    \E session_id \in DOMAIN session_files :
        /\ Cardinality(AddedSegments(session_id)) = 2
        /\ \A r \in SegmentRequestIds : segment_requests[r].pc # "reading"
        /\ Len(session_files[session_id].transcript_segments) = 1

\* Two requests for one session that did not overlap have both been stored.
C19_BothStored ==
    \E session_id \in DOMAIN session_files :
        /\ Cardinality(AddedSegments(session_id)) = 2
        /\ Len(session_files[session_id].transcript_segments) = 2
        /\ session_files[session_id].full_transcript
               = "stent deployedAudio segment transcribed"

\* The place of a display command in the order the rules are written in.
RuleRank(c) ==
    IF c.action = "show"
    THEN CASE c.target = "lab_results" -> 1
           [] c.target = "imaging" -> 2
           [] c.target = "vitals" -> 3
           [] c.target = "vtk" -> 4
           [] c.target = "dicom" -> 5
           [] OTHER -> 0
    ELSE CASE c.action = "zoom" -> 6
           [] c.action = "reset" -> 7
           [] c.action = "next" -> 8
           [] c.action = "previous" -> 9
           [] c.action = "rotate" -> 10
           [] c.action = "close" -> 11
           [] c.action = "open" -> 12
           [] OTHER -> 0

\* The commands are in the order of the rules.
InRuleOrder(cmds) ==
    /\ \A i \in 1..Len(cmds) : RuleRank(cmds[i]) > 0
    /\ \A i, j \in 1..Len(cmds) : i < j => RuleRank(cmds[i]) <= RuleRank(cmds[j])

\* C20 as stated: display_commands is in the fixed order of the rules,
\* whatever the order of the words: the show commands (lab_results, imaging,
\* vitals, vtk, dicom) first, then zoom, reset, next, previous, rotate, close,
\* open; "close vitals and show labs" yields [show lab_results, close
\* monitoring].
C20_RuleOrderTwoCommands ==
    parsed # None =>
        LET cmds == parsed[1].display_commands
        IN  /\ InRuleOrder(cmds)
            /\ transcript = Some("close vitals and show labs") =>
                   /\ Len(cmds) = 2
                   /\ cmds[1].action = "show" /\ cmds[1].target = "lab_results"
                   /\ cmds[2].action = "close" /\ cmds[2].target = "monitoring"

\* C20, amended: display_commands is in the fixed order of the rules,
\* whatever the order of the words; "close vitals and show labs" yields
\* [show lab_results, show vitals, close monitoring], since "show" with
\* "vital" also fires the show-vitals rule.
C20_RuleOrder ==
    parsed # None =>
        LET cmds == parsed[1].display_commands
        IN  /\ InRuleOrder(cmds)
            /\ transcript = Some("close vitals and show labs") =>
                   cmds = <<[action |-> "show", target |-> "lab_results",
                             position |-> "center"],
                            [action |-> "show", target |-> "vitals",
                             position |-> "right"],
                            [action |-> "close", target |-> "monitoring"]>>

\* "close vitals and show labs" was parsed: the show commands precede the
\* close command although "close" is said first.
C20_Witness ==
    /\ parsed # None
    /\ transcript = Some("close vitals and show labs")
    /\ Len(parsed[1].display_commands) = 3
    /\ parsed[1].display_commands[1].action = "show"
    /\ parsed[1].display_commands[3].action = "close"

\* Every rule fired on one transcript that names them in reverse order.
C20_WitnessAllRules ==
    /\ parsed # None
    /\ {RuleRank(parsed[1].display_commands[i]) :
           i \in 1..Len(parsed[1].display_commands)} = 1..12

\* "hide patient and display labs" gave [show lab_results, close patient].
C20_WitnessTwoCommands ==
    /\ parsed # None
    /\ transcript = Some("hide patient and display labs")
    /\ parsed[1].display_commands =
           <<[action |-> "show", target |-> "lab_results", position |-> "center"],
             [action |-> "close", target |-> "patient"]>>

\* The actions of the commands of a list, in order.
ActionsOf(cmds) == [i \in 1..Len(cmds) |-> cmds[i].action]

LifecycleActions ==
    {"start_transcription", "stop_transcription", "generate_letter", "show_letter"}

\* C21: the four lifecycle phrases are detected independently: "start
\* transcription" emits start_transcription with the call's procedure_type,
\* "stop transcription" stop_transcription, "create doctor" with "letter"
\* generate_letter, "show doctor" with "letter" show_letter, appended in that
\* order to transcription_commands and never to display_commands.
C21_LifecyclePhrases ==
    parsed # None =>
        LET tl == Lower(transcript[1])
            cmds == parsed[1].transcription_commands
            Emitted(action) == \E i \in 1..Len(cmds) : cmds[i].action = action
            Place(action) == CHOOSE i \in 1..Len(cmds) : cmds[i].action = action
        IN  /\ Emitted("start_transcription") <=> Contains(tl, "start transcription")
            /\ Emitted("stop_transcription") <=> Contains(tl, "stop transcription")
            /\ Emitted("generate_letter")
                   <=> (Contains(tl, "create doctor") /\ Contains(tl, "letter"))
            /\ Emitted("show_letter")
                   <=> (Contains(tl, "show doctor") /\ Contains(tl, "letter"))
            /\ \A i \in 1..Len(cmds) :
                   /\ cmds[i].action \in LifecycleActions
                   /\ cmds[i] = IF cmds[i].action = "start_transcription"
                                THEN [action |-> "start_transcription",
                                      procedure_type |-> procedure_type]
                                ELSE [action |-> cmds[i].action]
                   /\ \A j \in 1..Len(cmds) : i # j => cmds[i].action # cmds[j].action
            /\ \A a, b \in {c \in LifecycleActions : Emitted(c)} :
                   Place(a) < Place(b)
                       <=> <<a, b>> \in
                               {<<"start_transcription", "stop_transcription">>,
                                <<"start_transcription", "generate_letter">>,
                                <<"start_transcription", "show_letter">>,
                                <<"stop_transcription", "generate_letter">>,
                                <<"stop_transcription", "show_letter">>,
                                <<"generate_letter", "show_letter">>}
            /\ \A i \in 1..Len(parsed[1].display_commands) :
                   parsed[1].display_commands[i].action \notin LifecycleActions
            /\ transcript[1] \in LifecycleTranscripts
                   => parsed[1].display_commands = <<>>

\* All four lifecycle phrases, said in reverse order, were parsed for
\* ep_ablation.
C21_Witness ==
    /\ parsed # None
    /\ procedure_type = "ep_ablation"
    /\ parsed[1].display_commands = <<>>
    /\ parsed[1].transcription_commands =
           <<[action |-> "start_transcription", procedure_type |-> "ep_ablation"],
             [action |-> "stop_transcription"],
             [action |-> "generate_letter"],
             [action |-> "show_letter"]>>

\* "create doctor" without "letter" emitted nothing.
C21_WitnessNoLetter ==
    /\ parsed # None
    /\ Contains(Lower(transcript[1]), "create doctor")
    /\ parsed[1].transcription_commands = <<>>

\* C22: parse_command, generate_rule_based_response and the /ask pipeline
\* mutate no shared state: a step of one of them leaves the loaded dataset,
\* the active session pointer and the stored sessions and letters as they
\* were.
C22_NoSharedStateMutated ==
    [][UNCHANGED <<mock_data, storage>>
       \/ ~(ParseCommand \/ RuleBasedResponse \/ Ask)]_vars

\* The three operations have run on a service that holds an active session
\* and a letter, and /ask has returned the patient's labs.
C22_Witness ==
    /\ parsed # None
    /\ parsed[1].transcription_commands # <<>>
    /\ rule_answer # None
    /\ response # None
    /\ response[1].endpoint = "/ask"
    /\ response[1].status = 200
    /\ response[1].body.visual_data # None
    /\ active_transcription_session = Some(SessionId(1))
    /\ DOMAIN session_files = {SessionId(1)}
    /\ DOMAIN letter_files = {LetterId(1)}
    /\ mock_data = FullData

\* The show lab_results commands of a list.
LabCommands(cmds) ==
    LET IsLab(c) == c.action = "show" /\ c.target = "lab_results"
    IN  SelectSeq(cmds, IsLab)

\* C23: the position of a show lab_results command is "left" if the
\* transcript contains "left", else "right" if it contains "right", else
\* "center"; a transcript with both gets "left".
C23_LabPosition ==
    parsed # None =>
        LET tl == Lower(transcript[1])
            labs == LabCommands(parsed[1].display_commands)
        IN  \A i \in 1..Len(labs) :
                /\ Contains(tl, "left") => labs[i].position = "left"
                /\ (~Contains(tl, "left") /\ Contains(tl, "right"))
                       => labs[i].position = "right"
                /\ (~Contains(tl, "left") /\ ~Contains(tl, "right"))
                       => labs[i].position = "center"

\* A transcript that says "right" before "left" was parsed and its labs
\* command is placed left.
C23_Witness ==
    /\ parsed # None
    /\ transcript = Some("show labs right Left")
    /\ LabCommands(parsed[1].display_commands)
           = <<[action |-> "show", target |-> "lab_results", position |-> "left"]>>

\* A labs command was placed right, and one in the center.
C23_WitnessRight ==
    /\ parsed # None
    /\ LabCommands(parsed[1].display_commands) # <<>>
    /\ LabCommands(parsed[1].display_commands)[1].position = "right"

C23_WitnessCenter ==
    /\ parsed # None
    /\ LabCommands(parsed[1].display_commands) # <<>>
    /\ LabCommands(parsed[1].display_commands)[1].position = "center"

\* The next and previous commands of a list.
NavigationCommands(cmds) ==
    LET IsNavigation(c) == c.action \in {"next", "previous"}
    IN  SelectSeq(cmds, IsNavigation)

\* C24: the DICOM navigation rules are independent: "next" with "image" or
\* "slice" emits next on target dicom, "previous" with "image" or "slice"
\* emits previous on target dicom, and a transcript with both emits both,
\* next before previous.
C24_NavigationIndependent ==
    parsed # None =>
        LET tl == Lower(transcript[1])
            frame == Contains(tl, "image") \/ Contains(tl, "slice")
        IN  NavigationCommands(parsed[1].display_commands)
                = When(Contains(tl, "next") /\ frame,
                       [action |-> "next", target |-> "dicom"])
                  \o When(Contains(tl, "previous") /\ frame,
                          [action |-> "previous", target |-> "dicom"])

\* "previous" was said before "next" and both commands were emitted, next
\* first.
C24_Witness ==
    /\ parsed # None
    /\ transcript = Some("previous Next image")
    /\ NavigationCommands(parsed[1].display_commands)
           = <<[action |-> "next", target |-> "dicom"],
               [action |-> "previous", target |-> "dicom"]>>

\* Only the previous command was emitted.
C24_WitnessPrevious ==
    /\ parsed # None
    /\ NavigationCommands(parsed[1].display_commands)
           = <<[action |-> "previous", target |-> "dicom"]>>

\* "next" without "image" or "slice" emitted nothing.
C24_WitnessNoFrame ==
    /\ parsed # None
    /\ Contains(Lower(transcript[1]), "next")
    /\ NavigationCommands(parsed[1].display_commands) = <<>>

\* No session of that id was ever started.
UnknownSession(session_id) ==
    /\ load_transcription_session(session_id) = None
    /\ \A i \in 1..Len(load_sessions_index.sessions) :
           load_sessions_index.sessions[i].session_id # session_id

\* A request of one of the three endpoints that names the session.
NamesSession(session_id) ==
    \/ stop_transcription(session_id)
    \/ get_transcription_session(session_id)
    \/ \E r \in SegmentRequestIds, timestamp \in SegmentTimestamps :
           add_transcription_segment(r, session_id, timestamp)

\* C25: a request naming a session id that does not exist (stop, add
\* segment, get session) is answered with HTTP 404 and leaves the sessions
\* index, the stored sessions and the active session pointer unchanged.
C25_UnknownSessionIs404 ==
    [][\A session_id \in SessionIds :
           (UnknownSession(session_id) /\ NamesSession(session_id))
           => /\ response'[1].status = 404
              /\ UNCHANGED <<sessions_file, session_files,
                             active_transcription_session>>]_vars

\* What the code does: the request is answered with status 500 and the
\* stores are left unchanged.
C25_UnknownSessionIs500 ==
    [][\A session_id \in SessionIds :
           (UnknownSession(session_id) /\ NamesSession(session_id))
           => /\ response'[1].status = 500
              /\ UNCHANGED <<sessions_file, session_files,
                             active_transcription_session>>]_vars

\* Each of the three endpoints has answered a request for an unknown session
\* while a session was stored.
C25_WitnessStop ==
    /\ session_files # <<>>
    /\ response # None
    /\ response[1] = HttpError("/transcription/stop", 500,
                               "Failed to stop transcription: 404: Session not found")

C25_WitnessSegment ==
    /\ session_files # <<>>
    /\ response # None
    /\ response[1] = HttpError("/transcription/segment", 500,
                               "Failed to add segment: 404: Transcription session not found")

C25_WitnessGet ==
    /\ session_files # <<>>
    /\ response # None
    /\ response[1] = HttpError("/transcription/{session_id}", 500,
                               "Failed to load session")

\* The session is stored with n segments.
StoredSegments(session_id, n) ==
    /\ session_id \in DOMAIN session_files
    /\ Len(session_files[session_id].transcript_segments) = n

\* C26: segments are added only to active sessions: an
\* add_transcription_segment request that arrives after stop_transcription
\* has marked its session "completed" leaves the stored session (its
\* segments and its full_transcript) as it was when it returns.
C26_NoSegmentAfterStop ==
    [][\A r \in SegmentRequestIds :
           (/\ segment_requests[r].pc = "reading"
            /\ segment_requests[r].after_stop
            /\ segment_requests'[r].pc # "reading")
           => session_files'[segment_requests[r].session_id]
                  = session_files[segment_requests[r].session_id]]_vars

\* A segment request has returned segment_added for a session that the
\* index marks "completed".
C26_SegmentAfterStop ==
    /\ Completed(SessionId(1))
    /\ response # None
    /\ response[1].endpoint = "/transcription/segment"
    /\ response[1].status = 200
    /\ segment_requests[1].pc = "added"
    /\ segment_requests[2].pc = "idle"
    /\ StoredSegments(SessionId(1), 1)
    /\ session_files[SessionId(1)].full_transcript # ""

\* The session ids recorded in an Optional sessions index file.
IndexedIds(file) ==
    IF file = None THEN {}
    ELSE {file[1].sessions[i].session_id : i \in 1..Len(file[1].sessions)}

\* The ids in the index are pairwise distinct and last_session_id counts
\* them.
IndexConsistent(file) ==
    file # None =>
        /\ \A i, j \in 1..Len(file[1].sessions) :
               i # j => file[1].sessions[i].session_id # file[1].sessions[j].session_id
        /\ file[1].last_session_id = Len(file[1].sessions)

\* C27: session ids are unique: from an empty index on, every successful
\* start_transcription returns an id session_NNN that no earlier start
\* returned, the ids in the index are pairwise distinct and last_session_id
\* equals the number of sessions in the index.
C27_SessionIdsUnique ==
    [][/\ IndexConsistent(sessions_file')
       /\ StartSession =>
              /\ response'[1].status = 200
              /\ response'[1].body.session_id \notin IndexedIds(sessions_file)
              /\ response'[1].body.session_id
                     = SessionId(Cardinality(IndexedIds(sessions_file)) + 1)
              /\ IndexedIds(sessions_file')
                     = IndexedIds(sessions_file) \cup {response'[1].body.session_id}
              /\ DOMAIN session_files' = IndexedIds(sessions_file')]_vars

\* A second session was started after the first: session_002 was returned
\* and the index holds two ids.
C27_Witness ==
    /\ response # None
    /\ response[1].endpoint = "/transcription/start"
    /\ response[1].body.session_id = SessionId(2)
    /\ IndexedIds(sessions_file) = {SessionId(1), SessionId(2)}
    /\ sessions_file[1].last_session_id = 2

\* The status the index records for a session id ("" when it has none).
StatusOf(file, session_id) ==
    IF session_id \in IndexedIds(file)
    THEN LET i == CHOOSE k \in 1..Len(file[1].sessions) :
                      file[1].sessions[k].session_id = session_id
         IN  file[1].sessions[i].status
    ELSE ""

\* C28: after any sequence of start and stop requests the active session
\* pointer is unset or names a session whose status in the index is
\* "active", and stopping a session other than the active one leaves the
\* pointer unchanged.
C28_ActivePointer ==
    [][/\ active_transcription_session' # None
              => StatusOf(sessions_file', active_transcription_session'[1]) = "active"
       /\ \A session_id \in SessionIds :
              (stop_transcription(session_id)
               /\ active_transcription_session # Some(session_id))
              => UNCHANGED active_transcription_session]_vars

\* The first of two sessions was stopped while the second was the active
\* one, and the pointer still names the second.
C28_Witness ==
    /\ IndexedIds(sessions_file) = {SessionId(1), SessionId(2)}
    /\ StatusOf(sessions_file, SessionId(1)) = "completed"
    /\ StatusOf(sessions_file, SessionId(2)) = "active"
    /\ response # None
    /\ response[1].endpoint = "/transcription/stop"
    /\ response[1].status = 200
    /\ active_transcription_session = Some(SessionId(2))

\* The active session was stopped and the pointer is unset.
C28_WitnessCleared ==
    /\ IndexedIds(sessions_file) = {SessionId(1), SessionId(2)}
    /\ StatusOf(sessions_file, SessionId(2)) = "completed"
    /\ active_transcription_session = None

\* The texts of the stored segments of a session, in order.
SegmentTexts(session_id) ==
    [i \in 1..Len(session_files[session_id].transcript_segments) |->
        session_files[session_id].transcript_segments[i].text]

\* C29: for every stored session, full_transcript is the texts of
\* transcript_segments joined (with nothing between them) in the order the
\* segments were added, and stop_transcription reports total_segments equal
\* to the number of stored segments.
C29_TranscriptMatchesSegments ==
    /\ \A session_id \in DOMAIN session_files :
           session_files[session_id].full_transcript
               = Join("", SegmentTexts(session_id))
    /\ (/\ response # None
        /\ response[1].endpoint = "/transcription/stop"
        /\ response[1].status = 200)
       => LET stored == session_files[response[1].body.session_id]
          IN  /\ response[1].body.total_segments = Len(stored.transcript_segments)
              /\ response[1].body.full_transcript = stored.full_transcript

\* Two segments with different texts were added one after the other and the
\* session was stopped.
C29_Witness ==
    /\ response # None
    /\ response[1].endpoint = "/transcription/stop"
    /\ response[1].status = 200
    /\ response[1].body.total_segments = 2
    /\ response[1].body.full_transcript = "Audio segment transcribedstent deployed"
    /\ SegmentTexts(response[1].body.session_id)
           = <<"Audio segment transcribed", "stent deployed">>
====
